---------------------------- MODULE Spec2Model ----------------------------
(***************************************************************************)
(* A model of rstdoc/dcx.py: the link/target resolution of rstdcx.         *)
(*                                                                         *)
(* Lines and paths are TLA+ strings, handled character by character with   *)
(* Len, SubSeq and \o, so that the regular expressions and the string      *)
(* methods of the source are computed, not assumed.  Python indices are    *)
(* 0-based; the model keeps the 0-based indices in every value the source  *)
(* yields or stores and adds 1 only where it subscripts a TLA+ sequence.   *)
(*                                                                         *)
(* The character ` (backtick) cannot be written in a TLA+ string literal;  *)
(* the model writes it as ' (BQ).  No line of the model holds a real       *)
(* apostrophe.                                                             *)
(***************************************************************************)
EXTENDS Integers, Sequences, FiniteSets, TLC

\* ------------------------------------------------------------------------
\* Characters and the str methods the source uses
\*
\* An operator that uses a costly argument more than once takes the value of
\* the argument first (CHOOSE o_ \in {(body) : x \in {x_}} : TRUE is body with
\* x standing for the value of x_): where TLC keeps no value of an argument,
\* as under ENABLED, it would else compute the argument at every use.
\* ------------------------------------------------------------------------

BQ == "'"

Lowercase == "abcdefghijklmnopqrstuvwxyz"

Uppercase == "ABCDEFGHIJKLMNOPQRSTUVWXYZ"

Digits == "0123456789"

Punctuation == "!\"#$%&'()*+,-./:;<=>?@[\\]^_{|}~"

Ch(s, i) == SubSeq(s, i, i)

CharsOf(s) == {Ch(s, i) : i \in 1..Len(s)}

\* \w of the re module
WordChars == CharsOf(Lowercase) \cup CharsOf(Uppercase) \cup CharsOf(Digits) \cup {"_"}

\* \s of the re module, and the characters str.strip() removes
SpaceChars == {" ", "\t", "\n", "\r", "\f"}

\* the character class of rextitle
TitleChars == CharsOf(Punctuation)

SetMin(S) == CHOOSE x \in S : \A y \in S : x <= y

SetMax(S) == CHOOSE x \in S : \A y \in S : x >= y

StartsWith(s_, p_) ==
    CHOOSE o_ \in {(
        Len(s) >= Len(p) /\ SubSeq(s, 1, Len(p)) = p
        ) : s \in {s_}, p \in {p_}} : TRUE

EndsWith(s_, p_) ==
    CHOOSE o_ \in {(
        Len(s) >= Len(p) /\ SubSeq(s, Len(s) - Len(p) + 1, Len(s)) = p
        ) : s \in {s_}, p \in {p_}} : TRUE

\* 1-based position of the first occurrence of p in s at or after from; 0 if none
Find(s_, p_, from_) ==
    CHOOSE o_ \in {(
        IF \E i \in from..(Len(s) - Len(p) + 1) : SubSeq(s, i, i + Len(p) - 1) = p
        THEN CHOOSE i \in from..(Len(s) - Len(p) + 1) :
                 /\ SubSeq(s, i, i + Len(p) - 1) = p
                 /\ \A j \in from..(i - 1) : SubSeq(s, j, j + Len(p) - 1) # p
        ELSE 0
        ) : s \in {s_}, p \in {p_}, from \in {from_}} : TRUE

\* 1-based position of the last occurrence of p in s; 0 if none
RFind(s_, p_) ==
    CHOOSE o_ \in {(
        LET hits == {i \in 1..(Len(s) - Len(p) + 1) : SubSeq(s, i, i + Len(p) - 1) = p}
        IN  IF hits = {} THEN 0 ELSE SetMax(hits)
        ) : s \in {s_}, p \in {p_}} : TRUE

Contains(s, p) == Find(s, p, 1) # 0

\* s.strip(chars)
StripChars(s_, chars_) ==
    CHOOSE o_ \in {(
        LET keep == {i \in 1..Len(s) : Ch(s, i) \notin chars}
        IN  IF keep = {} THEN "" ELSE SubSeq(s, SetMin(keep), SetMax(keep))
        ) : s \in {s_}, chars \in {chars_}} : TRUE

\* s.strip()
Strip(s) == StripChars(s, SpaceChars)

RECURSIVE SplitOn(_, _)
\* s.split(sep)
SplitOn(s_, sep_) ==
    CHOOSE o_ \in {(
        LET k == Find(s, sep, 1)
        IN  IF k = 0 THEN <<s>>
            ELSE <<SubSeq(s, 1, k - 1)>> \o SplitOn(SubSeq(s, k + Len(sep), Len(s)), sep)
        ) : s \in {s_}, sep \in {sep_}} : TRUE

RECURSIVE Replace(_, _, _)
\* s.replace(old, new)
Replace(s_, old_, new_) ==
    CHOOSE o_ \in {(
        LET k == Find(s, old, 1)
        IN  IF k = 0 THEN s
            ELSE SubSeq(s, 1, k - 1) \o new \o Replace(SubSeq(s, k + Len(old), Len(s)), old, new)
        ) : s \in {s_}, old \in {old_}, new \in {new_}} : TRUE

RECURSIVE Join(_, _)
\* sep.join(parts)
Join(parts_, sep_) ==
    CHOOSE o_ \in {(
        IF Len(parts) = 0 THEN ""
        ELSE IF Len(parts) = 1 THEN parts[1]
        ELSE parts[1] \o sep \o Join(Tail(parts), sep)
        ) : parts \in {parts_}, sep \in {sep_}} : TRUE

RECURSIVE Repeat(_, _)
\* s * n
Repeat(s, n) == IF n <= 0 THEN "" ELSE s \o Repeat(s, n - 1)

\* c.upper() for one character
Upper(c) ==
    LET at == {i \in 1..Len(Lowercase) : Ch(Lowercase, i) = c}
    IN  IF at = {} THEN c ELSE Ch(Uppercase, CHOOSE i \in at : TRUE)

\* the position $ accepts: the end of the string, or just before a final newline
AtDollar(s, k) == k = Len(s) + 1 \/ (k = Len(s) /\ Ch(s, k) = "\n")

\* ------------------------------------------------------------------------
\* The regular expressions
\* ------------------------------------------------------------------------

NoMatch == [ok |-> FALSE, has |-> FALSE, g |-> ""]

\* rextitle.match(ln): one punctuation character, repeated, to the end
rextitle(ln) ==
    LET body == IF EndsWith(ln, "\n") THEN SubSeq(ln, 1, Len(ln) - 1) ELSE ln
    IN  /\ Len(body) >= 2
        /\ Ch(body, 1) \in TitleChars
        /\ \A i \in 1..Len(body) : Ch(body, i) = Ch(body, 1)

\* rexitem.match(ln): ^:?(\w[^:]*):\s.*$
rexitem(ln) ==
    LET p == IF StartsWith(ln, ":") THEN 2 ELSE 1
        q == Find(ln, ":", p + 1)
    IN  IF /\ p <= Len(ln)
           /\ Ch(ln, p) \in WordChars
           /\ q # 0
           /\ q + 1 <= Len(ln)
           /\ Ch(ln, q + 1) \in SpaceChars
           /\ LET nl == Find(ln, "\n", q + 2)
              IN  nl = 0 \/ nl = Len(ln)
        THEN [ok |-> TRUE, has |-> TRUE, g |-> SubSeq(ln, p, q - 1)]
        ELSE NoMatch

\* rexname.match(ln): ^\s*:name:\s*(\w.*)*$ ; has is FALSE when group 1 is None
rexname(ln) ==
    LET nonsp == {i \in 1..Len(ln) : Ch(ln, i) \notin SpaceChars}
        a == IF nonsp = {} THEN Len(ln) + 1 ELSE SetMin(nonsp)
        b == a + 6
        rest == {i \in b..Len(ln) : Ch(ln, i) \notin SpaceChars}
        c == IF rest = {} THEN Len(ln) + 1 ELSE SetMin(rest)
        nl == Find(ln, "\n", c)
        e == IF nl = 0 THEN Len(ln) ELSE nl - 1
    IN  IF SubSeq(ln, a, IF b - 1 <= Len(ln) THEN b - 1 ELSE Len(ln)) # ":name:" THEN NoMatch
        ELSE IF c = Len(ln) + 1 THEN [ok |-> TRUE, has |-> FALSE, g |-> ""]
        ELSE IF Ch(ln, c) \in WordChars /\ AtDollar(ln, e + 1)
             THEN [ok |-> TRUE, has |-> TRUE, g |-> SubSeq(ln, c, e)]
        ELSE NoMatch

\* rextgt without the end of its expression, `?:\s*$
rextgt_Unanchored(ln) ==
    /\ StartsWith(ln, ".. _")
    /\ Len(ln) >= 5
    /\ Ch(ln, 5) \in WordChars \cup {BQ}

\* the expression of rindices in linktargets: ^\.\. _`?(\w[^:`]*)`?:\s*$
rextgt(ln) ==
    LET p == IF StartsWith(ln, ".. _" \o BQ) THEN 6 ELSE 5
        stop == {i \in (p + 1)..Len(ln) : Ch(ln, i) \in {":", BQ}}
        s == IF stop = {} THEN 0 ELSE SetMin(stop)
    IN  /\ StartsWith(ln, ".. _")
        /\ p <= Len(ln)
        /\ Ch(ln, p) \in WordChars
        /\ s # 0
        /\ LET colon == IF Ch(ln, s) = BQ THEN s + 1 ELSE s
           IN  /\ colon <= Len(ln)
               /\ Ch(ln, colon) = ":"
               /\ \A i \in (colon + 1)..Len(ln) : Ch(ln, i) \in SpaceChars


\* ------------------------------------------------------------------------
\* links and linktargets
\* ------------------------------------------------------------------------

\* findall that stops at its first match
FindAll_First(ln, from) ==
    LET starts == {i \in from..Len(ln) :
                     /\ Ch(ln, i) = "|"
                     /\ \E k \in (i + 2)..Len(ln) :
                          /\ Ch(ln, k) = "|"
                          /\ \A m \in (i + 1)..(k - 1) : Ch(ln, m) \in WordChars}
    IN  IF starts = {} THEN <<>>
        ELSE <<SubSeq(ln, SetMin(starts) + 1, Find(ln, "|", SetMin(starts) + 1) - 1)>>

RECURSIVE FindAll(_, _)
\* re.compile(r'\|(\w+)\|').findall(ln), scanning from position from
FindAll(ln, from) ==
    LET starts == {i \in from..Len(ln) :
                     /\ Ch(ln, i) = "|"
                     /\ \E k \in (i + 2)..Len(ln) :
                          /\ Ch(ln, k) = "|"
                          /\ \A m \in (i + 1)..(k - 1) : Ch(ln, m) \in WordChars}
    IN  IF starts = {} THEN <<>>
        ELSE LET i == SetMin(starts)
                 k == Find(ln, "|", i + 1)
             IN  <<SubSeq(ln, i + 1, k - 1)>> \o FindAll(ln, k + 1)

RECURSIVE LinksFrom(_, _)
LinksFrom(lns, i) ==
    IF i > Len(lns) - 1 THEN <<>>
    ELSE LET mo == FindAll(lns[i + 1], 1)
         IN  [n \in 1..Len(mo) |-> <<i, mo[n]>>] \o LinksFrom(lns, i + 1)

\* links(lns): the (line index, id) pairs, as a list
links(lns) == LinksFrom(lns, 0)

CounterKeys == {".. figure", ".. math", ".. table", ".. code"}

\* the dict of line 234
FreshCounters == [k \in CounterKeys |-> 1]

\* first and past-the-last offset of range(i+2,i+8)
WinFirst == 2

WinStop == 8

docprefix == " "

\* rindices(r'^\.\. _`?(\w[^:`]*)`?:\s*$',lns), as an ascending list
itgts(lns) ==
    LET hit == {i \in 0..(Len(lns) - 1) : rextgt(lns[i + 1])}
        RECURSIVE Asc(_)
        Asc(S) == IF S = {} THEN <<>> ELSE <<SetMin(S)>> \o Asc(S \ {SetMin(S)})
    IN  Asc(hit)

\* lns[i].strip(' ._:`\n')
TgtOf(ln) == StripChars(ln, {" ", ".", "_", ":", BQ, "\n"})

\* Lnj1 without the replacement of list-table
Lnj1_NoListTable(ln) == Replace(SplitOn(ln, "::")[1], "code-block", "code")

\* lns[j-1].split('::')[0].replace('list-table','table').replace('code-block','code')
Lnj1(ln) == Replace(Replace(SplitOn(ln, "::")[1], "list-table", "table"), "code-block", "code")

\* line 248: the label of a heading, from the line above the underline
TitleLabel(above) == Strip(above)

\* line 263: the label made from the counter of the block kind lnj1
AutoLabel(lnj1, counters) ==
    Upper(Ch(lnj1, 4)) \o SubSeq(lnj1, 5, Len(lnj1)) \o docprefix \o ToString(counters[lnj1])

\* line 264
Advance(lnj1, counters) == [counters EXCEPT ![lnj1] = @ + 1]

\* NameLabel without strip()
NameLabel_Unstripped(g) == g

\* line 267: the label of an explicit :name:
NameLabel(g) == Strip(g)

RECURSIVE ScanWindow(_, _, _, _, _, _)
\* the loop of lines 242-270 from index j on, lnkname being its current value
ScanWindow(lns, i, j, tgt, lnkname, counters) ==
    IF j >= i + WinStop \/ j > Len(lns) - 1
    THEN [lnkname |-> lnkname, counters |-> counters]
    ELSE LET lnj == lns[j + 1]
             itm == rexitem(lnj)
             nam == rexname(lnj)
             lnj1 == Lnj1(lns[j])
         IN  IF rextitle(lnj)
             THEN [lnkname |-> TitleLabel(lns[j]), counters |-> counters]
             ELSE IF itm.ok
             THEN [lnkname |-> itm.g, counters |-> counters]
             ELSE IF nam.ok
             THEN IF ~nam.has /\ lnj1 \in CounterKeys
                  THEN [lnkname |-> AutoLabel(lnj1, counters),
                        counters |-> Advance(lnj1, counters)]
                  ELSE IF nam.has
                  THEN [lnkname |-> NameLabel(nam.g), counters |-> counters]
                  ELSE ScanWindow(lns, i, j + 1, tgt, tgt, counters)
             ELSE ScanWindow(lns, i, j + 1, tgt, lnkname, counters)

\* one turn of the loop of line 238: the target yielded for the anchor at index i
\* and the counters after it
TargetAt(lns, i, counters) ==
    LET tgt == TgtOf(lns[i + 1])
        r == ScanWindow(lns, i, i + WinFirst, tgt, tgt, counters)
    IN  [tgt |-> <<i, tgt, r.lnkname>>, counters |-> r.counters]

RECURSIVE TargetsFrom(_, _, _, _)
TargetsFrom(lns, idx, k, counters) ==
    IF k > Len(idx) THEN [tgts |-> <<>>, counters |-> counters]
    ELSE LET one == TargetAt(lns, idx[k], counters)
             more == TargetsFrom(lns, idx, k + 1, one.counters)
         IN  [tgts |-> <<one.tgt>> \o more.tgts, counters |-> more.counters]

\* g_counters after lines 233-234
WithGroup(gc, docnumber) ==
    IF docnumber \in DOMAIN gc THEN gc
    ELSE [d \in DOMAIN gc \cup {docnumber} |-> IF d = docnumber THEN FreshCounters ELSE gc[d]]

\* list(linktargets(lns,docnumber)) with g_counters = gc: the list and g_counters after
linktargets(lns, docnumber, gc) ==
    LET g1 == WithGroup(gc, docnumber)
        r == TargetsFrom(lns, itgts(lns), 1, g1[docnumber])
    IN  [tgts |-> r.tgts, g_counters |-> [g1 EXCEPT ![docnumber] = r.counters]]


\* ------------------------------------------------------------------------
\* Paths
\* ------------------------------------------------------------------------

_stpl == ".stpl"

is_rest(x) == EndsWith(x, ".rest") \/ EndsWith(x, ".rest" \o _stpl)

\* os.path.join(a, b)
PathJoin(a_, b_) ==
    CHOOSE o_ \in {(
        IF StartsWith(b, "/") THEN b
        ELSE IF a = "" \/ EndsWith(a, "/") THEN a \o b
        ELSE a \o "/" \o b
        ) : a \in {a_}, b \in {b_}} : TRUE

RECURSIVE NormParts(_, _, _)
\* the components os.path.normpath keeps, acc being those kept so far
NormParts(parts_, k_, acc_) ==
    CHOOSE o_ \in {(
        IF k > Len(parts) THEN acc
        ELSE LET c == parts[k]
             IN  IF c = "" \/ c = "." THEN NormParts(parts, k + 1, acc)
                 ELSE IF c = ".." /\ Len(acc) > 0 /\ acc[Len(acc)] # ".."
                      THEN NormParts(parts, k + 1, SubSeq(acc, 1, Len(acc) - 1))
                 ELSE NormParts(parts, k + 1, Append(acc, c))
        ) : parts \in {parts_}, k \in {k_}, acc \in {acc_}} : TRUE

\* os.path.normpath(path), for relative paths
NormPath(path_) ==
    CHOOSE o_ \in {(
        LET kept == NormParts(SplitOn(path, "/"), 1, <<>>)
        IN  IF Len(kept) = 0 THEN "." ELSE Join(kept, "/")
        ) : path \in {path_}} : TRUE

\* nj = lambda *x:os.path.normpath(os.path.join(*x))
nj(a, b) == NormPath(PathJoin(a, b))

\* os.path.split(path)
PathSplit(path) ==
    LET k == RFind(path, "/")
    IN  IF k = 0 THEN <<"", path>>
        ELSE <<IF k = 1 THEN "/" ELSE SubSeq(path, 1, k - 1), SubSeq(path, k + 1, Len(path))>>

\* os.path.splitext(name)[0], name holding no separator
SplitExtRoot(name) ==
    LET k == RFind(name, ".")
    IN  IF k = 0 \/ \A i \in 1..k : Ch(name, i) = "." THEN name
        ELSE SubSeq(name, 1, k - 1)

\* the default exclude_paths_substrings of genfldrincluded
exclude_paths_substrings == <<"_links_", "index.rest">>

Excluded(x) == \E n \in 1..Len(exclude_paths_substrings) : Contains(x, exclude_paths_substrings[n])

\* ------------------------------------------------------------------------
\* The file system: a function from the normalized paths of a tree, relative
\* to the scan root, to files
\* ------------------------------------------------------------------------

NoFile == [exists |-> FALSE, readable |-> FALSE, lns |-> <<>>]

File(lns) == [exists |-> TRUE, readable |-> TRUE, lns |-> lns]

\* a file whose bytes are no UTF-8: open succeeds and readlines raises (line 146)
Undecodable == [exists |-> TRUE, readable |-> FALSE, lns |-> <<>>]

\* os.path.exists(path), the scan root being the working directory
Exists(tree_, path_) ==
    CHOOSE o_ \in {(
        NormPath(path) \in DOMAIN tree /\ tree[NormPath(path)].exists
        ) : tree \in {tree_}, path \in {path_}} : TRUE

\* whether lines 145-146 read the file at path
Opens(tree_, path_) ==
    CHOOSE o_ \in {(
        Exists(tree, path) /\ tree[NormPath(path)].readable
        ) : tree \in {tree_}, path \in {path_}} : TRUE

\* ------------------------------------------------------------------------
\* genrstincluded
\* ------------------------------------------------------------------------

\* the name as given, whatever the search roots hold
Resolve_Bare(tree, fn, paths) == fn

\* lines 154-162: the file genrstincluded scans for the name fn
Resolve(tree_, fn_, paths_) ==
    CHOOSE o_ \in {(
        LET hit == {n \in 1..Len(paths) :
                      \/ Exists(tree, PathJoin(paths[n], fn))
                      \/ Exists(tree, PathJoin(paths[n], fn) \o _stpl)}
        IN  IF hit = {} THEN fn
            ELSE LET nfn == NormPath(PathJoin(paths[SetMin(hit)], fn))
                 IN  IF Exists(tree, nfn) THEN nfn ELSE nfn \o _stpl
        ) : tree \in {tree_}, fn \in {fn_}, paths \in {paths_}} : TRUE

\* reximg.search(e): image:: ((?:\.|/|\\|\w).*)
reximg(e) ==
    LET at == {i \in 1..Len(e) :
                 /\ SubSeq(e, i, IF i + 7 <= Len(e) THEN i + 7 ELSE Len(e)) = "image:: "
                 /\ i + 8 <= Len(e)
                 /\ Ch(e, i + 8) \in WordChars \cup {".", "/", "\\"}}
    IN  IF at = {} THEN NoMatch
        ELSE LET b == SetMin(at) + 8
                 nl == Find(e, "\n", b)
             IN  [ok |-> TRUE, has |-> TRUE,
                  g |-> SubSeq(e, b, IF nl = 0 THEN Len(e) ELSE nl - 1)]

RECURSIVE genrstincluded(_, _, _, _)
RECURSIVE ScanIncludes(_, _, _, _, _, _)

\* the loop of lines 167-194 from line k on.  The result holds the names
\* yielded, whether an exception left the generator, and the arguments
\* genrstincluded was called with.
ScanIncludes(tree, lns, k, toctree, paths, withimg) ==
    IF k > Len(lns) THEN [names |-> <<>>, raised |-> FALSE, calls |-> {}]
    ELSE
    LET e == lns[k]
        more(t) == ScanIncludes(tree, lns, k + 1, t, paths, withimg)
        then(sub, r) == [names |-> sub.names \o r.names, raised |-> r.raised,
                         calls |-> sub.calls \cup r.calls]
    IN  IF toctree /\ StartsWith(e, " ")
        THEN LET fl == Strip(e)
             IN  IF EndsWith(fl, ".rest") /\ Exists(tree, fl)
                 THEN LET sub == genrstincluded(tree, fl, paths, FALSE)
                      IN  IF sub.raised THEN sub ELSE then(sub, more(TRUE))
                 ELSE more(TRUE)
        \* line 176: toctreedone is False whenever it is read
        ELSE IF StartsWith(e, ".. toctree::") THEN more(TRUE)
        ELSE IF StartsWith(e, ".. ")
        THEN LET ft == SplitOn(SubSeq(e, 4, Len(e)), "include:: ")
                 img == reximg(e)
                 leaf == IF withimg /\ img.ok THEN <<img.g>> ELSE <<>>
             IN  IF Len(ft) # 2
                 THEN then([names |-> leaf, calls |-> {}], more(toctree))
                 ELSE IF ft[1] = "" /\ ft[2] # "" /\ ~StartsWith(ft[2], "_links_")
                 THEN LET sub == genrstincluded(tree, Strip(ft[2]), paths, FALSE)
                      IN  IF sub.raised
                          THEN then([names |-> sub.names \o leaf, calls |-> sub.calls],
                                    more(toctree))
                          ELSE then(sub, more(toctree))
                 ELSE more(toctree)
        ELSE more(toctree)

\* the generator genrstincluded(fn,paths,withimg), consumed to its end
genrstincluded(tree, fn, paths, withimg) ==
    LET nfn == Resolve(tree, fn, paths)
        \* the key of memoized: the arguments as given, withimg left out by default
        me == IF withimg THEN {<<fn, paths, TRUE>>} ELSE {<<fn, paths>>}
    IN  IF ~Opens(tree, nfn)
        THEN [names |-> <<fn>>, raised |-> TRUE, calls |-> me]
        ELSE LET r == ScanIncludes(tree, tree[NormPath(nfn)].lns, 1, FALSE, paths, withimg)
             IN  [names |-> <<fn>> \o r.names, raised |-> r.raised, calls |-> me \cup r.calls]

\* ------------------------------------------------------------------------
\* The lines documents are written with, by what an author means with them
\* ------------------------------------------------------------------------

AnchorLine(id) == ".. _" \o BQ \o id \o BQ \o ":\n"

BlankLine == "\n"

TextLine == "Some text.\n"

\* a hyperlink target with a URL: no anchor declaration
ExternalLine == ".. _ext: http://x\n"

CaptionLine == "|dua|: Table legend\n"

HeadingTexts == {"Title Here", "Step 1: Setup"}

TitleLines == {t \o "\n" : t \in HeadingTexts}

UnderLines == {"----------\n", "=============\n"}

ItemName == "idname"

\* definition-style lines of the identifier idname; the last is a final line
\* of a file that does not end in a newline
ItemLines == {":idname: text\n", "idname: text\n", ":idname:\n", ":idname:"}

Kinds == {"figure", "math", "table", "list-table", "code", "code-block"}

DirectiveLine(kind) ==
    CASE kind = "figure" -> ".. figure:: x.png\n"
      [] kind = "math" -> ".. math::\n"
      [] kind = "table" -> ".. table::\n"
      [] kind = "list-table" -> ".. list-table::\n"
      [] kind = "code" -> ".. code:: py\n"
      [] kind = "code-block" -> ".. code-block:: py\n"

\* the <Kind> of a label, list-table counting as table and code-block as code
KindLabel(kind) ==
    CASE kind = "figure" -> "Figure"
      [] kind = "math" -> "Math"
      [] kind \in {"table", "list-table"} -> "Table"
      [] kind \in {"code", "code-block"} -> "Code"

KindLabels == {KindLabel(k) : k \in Kinds}

EmptyNameLines == {"  :name:\n", "   :name: \n", "  :name:"}

ExplicitNames == {"foo", "my fig"}

\* the :name: field lines carrying the explicit name n
NameLines(n) == {"  :name: " \o n \o "\n", "   :name:  " \o n \o "  \n"}

NamedLines == UNION {NameLines(n) : n \in ExplicitNames}

NameOfLine(ln) == CHOOSE n \in ExplicitNames : ln \in NameLines(n)

KindOfLine(ln) == CHOOSE k \in Kinds : ln = DirectiveLine(k)

DirectiveLines == {DirectiveLine(k) : k \in Kinds}

\* ------------------------------------------------------------------------
\* The documents linktargets is exercised with
\* ------------------------------------------------------------------------

\* what may follow an anchor
Bodies ==
    {<<>>, <<TextLine>>, <<BlankLine, TextLine, BlankLine>>, <<BlankLine, ExternalLine>>}
    \cup {<<t, u>> : t \in TitleLines, u \in {"----------\n"}}
    \cup {<<BlankLine, t, u>> : t \in TitleLines, u \in UnderLines}
    \cup {<<BlankLine, it>> : it \in ItemLines}
    \cup {<<":idname: text\n">>}
    \cup {<<BlankLine, DirectiveLine(k), "  :name:\n">> : k \in Kinds}
    \cup {<<DirectiveLine("figure"), e>> : e \in EmptyNameLines}
    \cup {<<BlankLine, DirectiveLine("table"), nl>> : nl \in NamedLines}
    \cup {<<BlankLine, CaptionLine, BlankLine, DirectiveLine("list-table"), "  :name:\n">>}
    \cup {<<BlankLine, "  :name:\n", TextLine>>}

\* what follows the second anchor of a document of two anchors
SecondBodies ==
    {<<>>, <<BlankLine, "Title Here\n", "----------\n">>,
     <<BlankLine, DirectiveLine("figure"), "  :name:\n">>,
     <<BlankLine, DirectiveLine("table"), "  :name:\n">>,
     <<DirectiveLine("list-table"), "  :name:\n">>,
     <<BlankLine, DirectiveLine("figure"), "  :name: foo\n">>}

\* the largest number of blank lines between an anchor and what follows it
MaxPad == 7

RECURSIVE Blanks(_)
Blanks(n) == IF n = 0 THEN <<>> ELSE <<BlankLine>> \o Blanks(n - 1)

PaddedBodies ==
    {<<"Title Here\n", "----------\n">>, <<"idname: text\n">>,
     <<DirectiveLine("math"), "  :name:\n">>, <<DirectiveLine("code"), "  :name: foo\n">>}

OneAnchorDocs == {<<AnchorLine("s1")>> \o b : b \in Bodies}

\* what lies between the two anchors of a document of two anchors (only the
\* last line of a file can lack its newline)
FirstBodies ==
    {<<>>, <<BlankLine, TextLine, BlankLine>>, <<BlankLine, "Step 1: Setup\n", "----------\n">>,
     <<BlankLine, ExternalLine>>,
     <<BlankLine, DirectiveLine("figure"), "  :name:\n">>,
     <<BlankLine, DirectiveLine("table"), "  :name:\n">>,
     <<BlankLine, DirectiveLine("code-block"), "  :name:\n">>,
     <<BlankLine, CaptionLine, BlankLine, DirectiveLine("list-table"), "  :name:\n">>,
     <<BlankLine, DirectiveLine("table"), "  :name: foo\n">>}

TwoAnchorDocs ==
    {<<AnchorLine("s1")>> \o b \o <<AnchorLine("s2")>> \o c : b \in FirstBodies, c \in SecondBodies}

PaddedDocs ==
    {<<TextLine, AnchorLine("s1")>> \o Blanks(g) \o b : g \in 2..MaxPad, b \in PaddedBodies}

\* the identifiers the anchors of the documents enclose
AnchorIds == {"s1", "s2", "_t11"}

\* documents whose anchor encloses an identifier that begins with an underscore
UnderscoreDocs ==
    {<<AnchorLine("_t11")>>, <<AnchorLine("_t11"), BlankLine, "see |_t11|\n">>,
     <<AnchorLine("s1"), BlankLine, "see |s1|\n", AnchorLine("_t11")>>}

LabelDocs == OneAnchorDocs \cup TwoAnchorDocs \cup PaddedDocs \cup UnderscoreDocs

\* the document-group numbers linktargets is called with
DocNumbers == {1, 2}

\* the number of linktargets calls of one run of the process
MaxCalls == 2


\* ------------------------------------------------------------------------
\* genfldrincluded, links of a folder, and lnksandtags
\* ------------------------------------------------------------------------

\* the file names of the trees, in the order sorted() gives them
FileNames == <<"inc.rst", "index.rest", "x.rest", "y.rest", "z.rest">>

\* the (p, f) pairs of lines 204-206 for which line 206 holds, in walk order
RECURSIVE WalkFrom(_, _, _, _)
WalkFrom(tree, dirs, d, n) ==
    IF d > Len(dirs) THEN <<>>
    ELSE IF n > Len(FileNames) THEN WalkFrom(tree, dirs, d + 1, 1)
    ELSE (IF Exists(tree, PathJoin(dirs[d], FileNames[n])) /\ is_rest(FileNames[n])
          THEN <<<<dirs[d], FileNames[n]>>>> ELSE <<>>)
         \o WalkFrom(tree, dirs, d, n + 1)

\* lines 210-217: the list res built from the names genrstincluded yields
RECURSIVE ResOf(_, _, _)
ResOf(pdir, names, k) ==
    IF k > Len(names) THEN <<>>
    ELSE (IF Excluded(names[k]) \/ Excluded(nj(pdir, names[k])) THEN <<>>
          ELSE <<nj(pdir, names[k])>>)
         \o ResOf(pdir, names, k + 1)

doctypes == <<"sphinx", "docx", "pdf">>

\* lines 513-517: the directive of a target for the doctype ddn
tgte_AlwaysLink(ddn, tgt, lnkname, restn) ==
    ".. |" \o tgt \o "| replace:: " \o BQ \o lnkname \o " <" \o restn \o "." \o ddn
    \o "#" \o tgt \o ">" \o BQ \o "_\n"

tgte(ddn, tgt, lnkname, restn) ==
    IF ddn = "sphinx"
    THEN ".. |" \o tgt \o "| replace:: :ref:" \o BQ \o lnkname \o "<" \o tgt \o ">" \o BQ \o "\n"
    ELSE ".. |" \o tgt \o "| replace:: " \o BQ \o lnkname \o " <" \o restn \o "." \o ddn
         \o "#" \o tgt \o ">" \o BQ \o "_\n"

tagrow_ZeroBased(tgt, up, fin, i) ==
    tgt \o "\t" \o Repeat("../", up) \o fin \o "\t/^\\.\\. _" \o BQ \o "\\?" \o tgt \o BQ
    \o "\\?:/;\"\t\tline:" \o ToString(i)

\* line 519: the row of a target in .tags
tagrow(tgt, up, fin, i) ==
    tgt \o "\t" \o Repeat("../", up) \o fin \o "\t/^\\.\\. _" \o BQ \o "\\?" \o tgt \o BQ
    \o "\\?:/;\"\t\tline:" \o ToString(i + 1)

Listed_Unmarked(lnk, alltgts) == lnk

\* lines 486-489, 498-501: a link as it is listed
Listed(lnk, alltgts) == IF lnk \in alltgts THEN lnk ELSE "-" \o lnk

\* TakeLinks that takes every link left, whatever its line
TakeLinks_All(i, rest, alltgts) ==
    [linksto |-> [n \in 1..Len(rest) |-> IF rest[n][2] \in alltgts THEN rest[n][2]
                                           ELSE "-" \o rest[n][2]],
     ojlnk |-> <<>>, rest |-> <<>>]

RECURSIVE TakeLinks(_, _, _)
\* the loop of lines 493-502 over the links not yet taken from iterlnks
TakeLinks(i, rest, alltgts) ==
    IF Len(rest) = 0 THEN [linksto |-> <<>>, ojlnk |-> <<>>, rest |-> <<>>]
    ELSE IF rest[1][1] > i THEN [linksto |-> <<>>, ojlnk |-> <<rest[1]>>, rest |-> Tail(rest)]
    ELSE LET r == TakeLinks(i, Tail(rest), alltgts)
         IN  [r EXCEPT !.linksto = <<Listed(rest[1][2], alltgts)>> \o @]

\* add_linksto(i,ojlnk): ojlnk is <<>> for None and <<link>> otherwise, rest
\* what iterlnks has left; the result holds the lines appended to every
\* doctype, the value returned and what iterlnks has left then
add_linksto(i, ojlnk, rest, alltgts) ==
    LET due == Len(ojlnk) = 1 /\ ojlnk[1][1] < i
        first == IF due THEN <<Listed(ojlnk[1][2], alltgts)>> ELSE <<>>
        oj == IF due THEN <<>> ELSE ojlnk
        r == IF Len(oj) = 0 THEN TakeLinks(i, rest, alltgts)
             ELSE [linksto |-> <<>>, ojlnk |-> oj, rest |-> rest]
        linksto == first \o r.linksto
    IN  [out |-> IF Len(linksto) > 0 THEN <<".. .. " \o Join(linksto, ",") \o "\n\n">> ELSE <<>>,
         ojlnk |-> r.ojlnk, rest |-> r.rest]

RECURSIVE TargetsOut(_, _, _, _, _, _, _, _)
\* the loop of lines 509-519 from target k on: what it appends to the list of
\* the doctype ddn and to tags, and the state add_linksto is left in
TargetsOut(ddn, tgts, k, ojlnk, rest, alltgts, restn, upfin) ==
    IF k > Len(tgts) THEN [di |-> <<>>, tags |-> <<>>, ojlnk |-> ojlnk, rest |-> rest]
    ELSE LET a == add_linksto(tgts[k][1], ojlnk, rest, alltgts)
             r == TargetsOut(ddn, tgts, k + 1, a.ojlnk, a.rest, alltgts, restn, upfin)
         IN  [di |-> a.out \o <<tgte(ddn, tgts[k][2], tgts[k][3], restn)>> \o r.di,
              tags |-> <<tagrow(tgts[k][2], upfin[1], upfin[2], tgts[k][1])>> \o r.tags,
              ojlnk |-> r.ojlnk, rest |-> r.rest]

\* lines 466-469
UpOf(fldr) == IF Strip(fldr) # "" THEN Len(SplitOn(fldr, "/")) ELSE 0

RECURSIVE EntriesOut(_, _, _, _, _)
\* the loop of lines 471-520 from entry k of lnktgts on
EntriesOut(ddn, fldr, lnktgts, k, alltgts) ==
    IF k > Len(lnktgts) THEN [di |-> <<>>, tags |-> <<>>]
    ELSE LET e == lnktgts[k]
             fin == Replace(e.doc, "\\", "/")
             t == TargetsOut(ddn, e.tgts, 1, <<>>, e.lnks, alltgts, e.restn, <<UpOf(fldr), fin>>)
             z == add_linksto(e.lenlns, t.ojlnk, t.rest, alltgts)
             r == EntriesOut(ddn, fldr, lnktgts, k + 1, alltgts)
         IN  [di |-> <<"\n.. .. " \o fin \o "\n\n">> \o t.di \o z.out \o r.di,
              tags |-> t.tags \o r.tags]

\* lnksandtags(fldr,lnktgts,allfiles,alltgts): the lists built for the three
\* doctypes and for .tags
lnksandtags(fldr, lnktgts, alltgts) ==
    [sphinx |-> EntriesOut("sphinx", fldr, lnktgts, 1, alltgts).di,
     docx |-> EntriesOut("docx", fldr, lnktgts, 1, alltgts).di,
     pdf |-> EntriesOut("pdf", fldr, lnktgts, 1, alltgts).di,
     tags |-> EntriesOut("sphinx", fldr, lnktgts, 1, alltgts).tags]

Written_TagsIfAny(fldr, lists) ==
    LET names == [n \in 1..3 |-> nj(fldr, "_links_" \o doctypes[n] \o ".rst")]
        tagfile == nj(fldr, ".tags")
    IN  [q \in {names[n] : n \in 1..3} \cup (IF Len(lists.tags) > 0 THEN {tagfile} ELSE {}) |->
            IF q = tagfile THEN Join(lists.tags, "\n")
            ELSE IF q = names[1] THEN Join(lists.sphinx, "\n")
            ELSE IF q = names[2] THEN Join(lists.docx, "\n")
            ELSE Join(lists.pdf, "\n")]

\* lines 521-525: the files written, by path
Written(fldr, lists) ==
    LET names == [n \in 1..3 |-> nj(fldr, "_links_" \o doctypes[n] \o ".rst")]
        tagfile == nj(fldr, ".tags")
    IN  [q \in {names[n] : n \in 1..3} \cup {tagfile} |->
            IF q = tagfile THEN Join(lists.tags, "\n")
            ELSE IF q = names[1] THEN Join(lists.sphinx, "\n")
            ELSE IF q = names[2] THEN Join(lists.docx, "\n")
            ELSE Join(lists.pdf, "\n")]

\* ------------------------------------------------------------------------
\* The document trees genfldrs is run over
\* ------------------------------------------------------------------------

LinkLine(ids) == "see " \o Join([n \in 1..Len(ids) |-> "|" \o ids[n] \o "|"], " and ") \o "\n"

IncludeLine(name) == ".. include:: " \o name \o "\n"

\* an unnamed figure with its anchor, then links to t2 and to zz
DocFigure ==
    <<AnchorLine("t1"), BlankLine, DirectiveLine("figure"), "  :name:\n", BlankLine,
      LinkLine(<<"t2", "zz">>)>>

\* links, then a heading with its anchor, a link and the generated links file
DocHeading ==
    <<LinkLine(<<"t1", "t3">>), AnchorLine("t2"), BlankLine, "Title Here\n", "----------\n",
      LinkLine(<<"t2">>), IncludeLine("_links_sphinx.rst")>>

\* includes inc.rst, then an unnamed table with its anchor
DocIncluding ==
    <<IncludeLine("inc.rst"), AnchorLine("t3"), BlankLine, DirectiveLine("table"), "  :name:\n",
      LinkLine(<<"t4">>)>>

\* an unnamed figure with its anchor, then a link to t1
DocOther ==
    <<AnchorLine("t3"), BlankLine, DirectiveLine("figure"), "  :name:\n", LinkLine(<<"t1">>)>>

\* the included file: an unnamed figure with its anchor, and links
DocIncluded ==
    <<AnchorLine("t4"), BlankLine, DirectiveLine("figure"), "  :name:\n",
      LinkLine(<<"t3", "t4", "zz">>)>>

\* a link and text, no anchor
DocPlain == <<LinkLine(<<"t1">>), "nothing is declared here\n">>

\* includes inc.rst as DocIncluding does; two anchors, the later one with the
\* smaller id, and links before, between and after them
DocTwice ==
    <<IncludeLine("inc.rst"), LinkLine(<<"t4">>), AnchorLine("zz"), BlankLine, "Title Two\n",
      "=========\n", LinkLine(<<"t1", "t2">>), AnchorLine("t1"), BlankLine,
      DirectiveLine("figure"), "  :name:\n", LinkLine(<<"zz">>)>>

TreeDocs == {DocFigure, DocHeading, DocIncluding, DocOther, DocIncluded, DocPlain, DocTwice}

\* the ids the trees declare and link to
TreeIds == {"t1", "t2", "t3", "t4", "zz"}

TreePaths == {"a/x.rest", "a/y.rest", "a/inc.rst", "b/x.rest", "z.rest", "index.rest"}

\* the tree with these files at its six paths
TreeOf(ax, ay, inc, bx, z, ix) ==
    [q \in TreePaths |->
        CASE q = "a/x.rest" -> ax
          [] q = "a/y.rest" -> ay
          [] q = "a/inc.rst" -> inc
          [] q = "b/x.rest" -> bx
          [] q = "z.rest" -> z
          [] q = "index.rest" -> ix]

\* the trees scanned: every choice of the documents with one anchor, and the
\* trees of folders a and b with the document of two anchors or the document
\* without anchor
Trees ==
    {TreeOf(ax, ay, inc, bx, z, ix) :
        ax \in {NoFile, File(DocFigure), File(DocHeading)},
        ay \in {NoFile, File(DocHeading), File(DocIncluding)},
        inc \in {NoFile, File(DocIncluded), Undecodable},
        bx \in {NoFile, File(DocFigure), File(DocOther)},
        z \in {NoFile, File(DocOther), Undecodable},
        ix \in {NoFile, File(DocFigure)}}
    \cup {TreeOf(File(DocTwice), ay, inc, bx, NoFile, NoFile) :
            ay \in {NoFile, File(DocHeading), File(DocIncluding)},
            inc \in {NoFile, File(DocIncluded), Undecodable},
            bx \in {NoFile, File(DocFigure), File(DocPlain)}}
    \cup {TreeOf(ax, ay, inc, File(DocPlain), NoFile, NoFile) :
            ax \in {NoFile, File(DocFigure), File(DocHeading)},
            ay \in {NoFile, File(DocHeading), File(DocIncluding)},
            inc \in {NoFile, File(DocIncluded)}}

\* the orders in which os.walk('.') can come to the directories
WalkOrders == {<<".", "./a", "./b">>, <<".", "./b", "./a">>}

\* the number of scans (genfldrs with lnksandtags for every folder) of one process
MaxRuns == 2

\* ------------------------------------------------------------------------
\* State
\* ------------------------------------------------------------------------

VARIABLES
    g_counters,   \* the module global g_counters: docnumber -> counters
    gen,          \* the linktargets generator being consumed, or NoGen
    yielded,      \* what the consumer has received from gen so far
    ncalls,       \* linktargets calls made so far
    step,         \* the last turn of the loop of linktargets, or NoStep
    nauto,        \* per group and <Kind>: anchors labelled from the counter so far
    nblocks,      \* per group and <Kind>: distinct unnamed blocks labelled so far
    lastblock,    \* per group and <Kind>: the last such block of this call, <<call, line index>>
    fs,           \* the document tree
    walk,         \* the order in which os.walk comes to its directories
    pc,           \* where the scan is: "idle", "scan", "done" or "crashed"
    runs,         \* scans begun by this process
    cwd,          \* the working directory: "odir" or "scanroot"
    lines_cache,  \* the cache of read_lines: path -> lines
    memo,         \* the cache of memoized(genrstincluded): arguments -> names yielded
    primaries,    \* the (p, f) pairs genfldrincluded has still to come to
    dcs,          \* the list of line 437 being worked on
    di,           \* the position in dcs of the next doc of line 445
    cur,          \* fldr and restn of the primary document of dcs
    dcns,         \* the set dcns of genfldrs
    fldr_lnktgts, \* the OrderedDict of genfldrs, as a list of [fldr, lnktgts]
    fldr_allfiles,\* fldr -> files
    fldr_alltgts, \* fldr -> target ids
    nextfldr,     \* the position in fldr_lnktgts of the next folder to yield
    files_out,    \* the files lnksandtags has written: path -> content
    emitted,      \* fldr -> the lists lnksandtags built at its last call
    prev_out,     \* files_out as the previous scan left it
    scanned,      \* the last doc of line 445: its lines, targets and the
                  \* <Kind>s labelled from a counter before it for its primary
    lgen,         \* the links generator being consumed, or NoLinks
    lout,         \* the pairs the consumer has received from lgen so far
    memo_cache,   \* the cache of memoized(genrstincluded): arguments -> the tee
                  \* buffer and the suspended generator behind it
    cursors,      \* the iterators memoized has returned to the consumers
    scans,        \* the read_lines calls of line 164: <<arguments, nfn>>
    lru,          \* the cache of lru_cache around read_lines, least recently
                  \* used first: [fn, lns], lns being the list object held
    nlists,       \* the list objects read_lines has made so far (line 146)
    nread,        \* the files read_lines was called for so far, all different
    returned,     \* fn -> the list objects read_lines has returned for fn
    last          \* the outcome of the last call of read_lines

labelVars == <<gen, yielded, ncalls, step, nauto, nblocks, lastblock>>

treeVars == <<fs, walk>>

scanVars == <<primaries, dcs, di, cur, dcns, fldr_lnktgts, fldr_allfiles, fldr_alltgts, scanned>>

pipeVars == <<treeVars, pc, runs, cwd, lines_cache, memo, scanVars, nextfldr, files_out,
              emitted, prev_out>>

linkVars == <<lgen, lout>>

inclVars == <<memo_cache, cursors, scans>>

readVars == <<lru, nlists, nread, returned, last>>

unitVars == <<linkVars, inclVars, readVars>>

vars == <<g_counters, labelVars, pipeVars, unitVars>>

NoLinks == [active |-> FALSE, src |-> <<>>, lns |-> <<>>, k |-> 0]

NoGen == [active |-> FALSE, lns |-> <<>>, docnumber |-> 0, idx |-> <<>>, k |-> 0]

NoStep == [at |-> -1, first |-> [kind |-> "none", j |-> -1], before |-> <<>>]

\* ------------------------------------------------------------------------
\* What the lines below an anchor mean to a reader: the first line, among the
\* lines the loop of linktargets looks at, that carries a label
\* ------------------------------------------------------------------------

RECURSIVE FirstMeaning(_, _, _)
FirstMeaning(lns, i, j) ==
    IF j > i + 7 \/ j > Len(lns) - 1 THEN [kind |-> "none", j |-> -1]
    ELSE LET ln == lns[j + 1]
         IN  IF ln \in UnderLines THEN [kind |-> "title", j |-> j]
             ELSE IF ln \in ItemLines \/ ln = "Step 1: Setup\n" THEN [kind |-> "item", j |-> j]
             ELSE IF ln \in NamedLines THEN [kind |-> "name", j |-> j]
             ELSE IF ln \in EmptyNameLines /\ lns[j] \in DirectiveLines
                  THEN [kind |-> "auto", j |-> j]
             ELSE FirstMeaning(lns, i, j + 1)

MeaningAt(lns, i) == FirstMeaning(lns, i, i + 2)

\* ------------------------------------------------------------------------
\* linktargets, one turn of its loop at a time
\* ------------------------------------------------------------------------

\* no linktargets call of its own is being stepped through
LabelIdle ==
    /\ gen = NoGen
    /\ yielded = <<>>
    /\ ncalls = 0
    /\ step = NoStep
    /\ nauto = [d \in DocNumbers |-> [k \in KindLabels |-> 0]]
    /\ nblocks = [d \in DocNumbers |-> [k \in KindLabels |-> 0]]
    /\ lastblock = [d \in DocNumbers |-> [k \in KindLabels |-> <<0, -1>>]]

NoScanned == [lns |-> <<>>, tgts |-> <<>>, seen |-> {}]

\* no links call of its own is being stepped through
LinkIdle ==
    /\ lgen = NoLinks
    /\ lout = <<>>

\* genrstincluded has not been called
InclIdle ==
    /\ memo_cache = <<>>
    /\ cursors = <<>>
    /\ scans = <<>>

\* read_lines has not been called apart from the scan
ReadIdle ==
    /\ lru = <<>>
    /\ nlists = 0
    /\ nread = 0
    /\ returned = <<>>
    /\ last = [fn |-> -1, lns |-> 0, raised |-> ""]

UnitIdle == LinkIdle /\ InclIdle /\ ReadIdle

\* the process has begun no scan
PipeIdle ==
    /\ pc = "idle"
    /\ runs = 0
    /\ cwd = "odir"
    /\ lines_cache = <<>>
    /\ memo = <<>>
    /\ primaries = <<>>
    /\ dcs = <<>>
    /\ di = 1
    /\ cur = [fldr |-> "", restn |-> ""]
    /\ dcns = {}
    /\ fldr_lnktgts = <<>>
    /\ fldr_allfiles = <<>>
    /\ fldr_alltgts = <<>>
    /\ nextfldr = 1
    /\ files_out = <<>>
    /\ emitted = <<>>
    /\ prev_out = <<>>
    /\ scanned = NoScanned

LabelInit ==
    /\ g_counters = <<>>
    /\ LabelIdle
    /\ PipeIdle
    /\ UnitIdle
    /\ fs = <<>>
    /\ walk = <<>>

\* list(linktargets(lns,docnumber)) begins: lines 232-237
LtCall ==
    /\ ~gen.active
    /\ ncalls < MaxCalls
    /\ \E lns \in LabelDocs, d \in DocNumbers :
          \* len(dcns) never decreases
          /\ \A e \in DOMAIN g_counters : e <= d
          /\ gen' = [active |-> TRUE, lns |-> lns, docnumber |-> d, idx |-> itgts(lns), k |-> 1]
          /\ g_counters' = WithGroup(g_counters, d)
    /\ yielded' = <<>>
    /\ ncalls' = ncalls + 1
    /\ step' = NoStep
    /\ UNCHANGED <<nauto, nblocks, lastblock, pipeVars, unitVars>>

\* one turn of the loop of line 238, up to its yield
LtStep ==
    /\ gen.active
    /\ gen.k <= Len(gen.idx)
    /\ LET i == gen.idx[gen.k]
           d == gen.docnumber
           one == TargetAt(gen.lns, i, g_counters[d])
           m == MeaningAt(gen.lns, i)
           kl == KindLabel(KindOfLine(gen.lns[m.j]))
           blk == <<ncalls, m.j>>
       IN  /\ g_counters' = [g_counters EXCEPT ![d] = one.counters]
           /\ yielded' = Append(yielded, one.tgt)
           /\ step' = [at |-> i, first |-> m, before |-> g_counters]
           /\ IF m.kind = "auto"
              THEN /\ nauto' = [nauto EXCEPT ![d][kl] = @ + 1]
                   /\ nblocks' = [nblocks EXCEPT ![d][kl] =
                                    IF lastblock[d][kl] = blk THEN @ ELSE @ + 1]
                   /\ lastblock' = [lastblock EXCEPT ![d][kl] = blk]
              ELSE UNCHANGED <<nauto, nblocks, lastblock>>
    /\ gen' = [gen EXCEPT !.k = @ + 1]
    /\ UNCHANGED <<ncalls, pipeVars, unitVars>>

\* the loop ends: the generator is exhausted and the list is complete
LtDone ==
    /\ gen.active
    /\ gen.k > Len(gen.idx)
    /\ gen' = [gen EXCEPT !.active = FALSE]
    /\ lastblock' = [d \in DocNumbers |-> [k \in KindLabels |-> <<0, -1>>]]
    /\ UNCHANGED <<g_counters, yielded, ncalls, step, nauto, nblocks, pipeVars, unitVars>>

LabelNext == LtCall \/ LtStep \/ LtDone

SpecLabel == LabelInit /\ [][LabelNext]_vars


\* ------------------------------------------------------------------------
\* links, one line at a time, over lines put together from markers and text
\* ------------------------------------------------------------------------

\* a bar-delimited identifier marker, and text that holds none
Marker(id) == [marker |-> TRUE, s |-> id]

Text(t) == [marker |-> FALSE, s |-> t]

RECURSIVE LineOf(_)
LineOf(segs) ==
    IF segs = <<>> THEN ""
    ELSE (IF Head(segs).marker THEN "|" \o Head(segs).s \o "|" ELSE Head(segs).s)
         \o LineOf(Tail(segs))

\* the lines of test_dcx_regex and lines with bars that delimit no identifier
MarkedLines ==
    {<<Marker("xx"), Text(" A '"), Marker("lnk"), Text("' here "), Marker("gos11"), Text("\n")>>,
     <<Text("  | "), Marker("xeps1"), Text(" | "), Marker("xeps"), Text("  |")>>,
     <<Text("     "), Marker("dd_figure"), Text(": Caption here.")>>,
     <<Marker("a"), Marker("b"), Text("\n")>>,
     <<Text("see "), Marker("s1"), Text(" and "), Marker("s1"), Text("\n")>>,
     <<Text("no marker | here\n")>>,
     <<Text("|a b| || |-|\n")>>,
     <<Text("\n")>>}

\* the most lines of a document handed to links
MaxLines == 2

MarkedDocs == UNION {[1..n -> MarkedLines] : n \in 0..MaxLines}

\* lns = [LineOf(l) for l in src]
LinesOf(src) == [n \in 1..Len(src) |-> LineOf(src[n])]

\* list(links(lns)) begins
LkCall ==
    /\ ~lgen.active
    /\ \E src \in MarkedDocs :
          lgen' = [active |-> TRUE, src |-> src, lns |-> LinesOf(src), k |-> 0]
    /\ lout' = <<>>
    /\ UNCHANGED <<g_counters, labelVars, pipeVars, inclVars, readVars>>

\* one turn of the loop of line 222 with the yields of lines 224-225
LkLine ==
    /\ lgen.active
    /\ lgen.k < Len(lgen.lns)
    /\ \E mo \in {FindAll(lgen.lns[lgen.k + 1], 1)} :
          lout' = lout \o [n \in 1..Len(mo) |-> <<lgen.k, mo[n]>>]
    /\ lgen' = [lgen EXCEPT !.k = @ + 1]
    /\ UNCHANGED <<g_counters, labelVars, pipeVars, inclVars, readVars>>

\* the loop ends: the generator is exhausted
LkDone ==
    /\ lgen.active
    /\ lgen.k = Len(lgen.lns)
    /\ lgen' = [lgen EXCEPT !.active = FALSE]
    /\ UNCHANGED <<g_counters, labelVars, pipeVars, inclVars, readVars, lout>>

LinkInit ==
    /\ g_counters = <<>>
    /\ LabelIdle
    /\ PipeIdle
    /\ UnitIdle
    /\ fs = <<>>
    /\ walk = <<>>

LinkNext == LkCall \/ LkLine \/ LkDone

SpecLinks == LinkInit /\ [][LinkNext]_vars


\* ------------------------------------------------------------------------
\* genfldrs and the loop of main over it, one step at a time
\* ------------------------------------------------------------------------

Init ==
    /\ g_counters = <<>>
    /\ LabelIdle
    /\ PipeIdle
    /\ UnitIdle
    /\ fs \in Trees
    /\ walk \in WalkOrders

\* f extended or overwritten with the entries of g
Updated(f, g) == [q \in DOMAIN f \cup DOMAIN g |-> IF q \in DOMAIN g THEN g[q] ELSE f[q]]

\* line 439: the folder of a primary document
FldrOf_Root(rest) == ""

FldrOf(rest) == PathSplit(rest)[1]

\* lines 441-443: the base name of a primary document
RestnOf(rest) ==
    LET restn == SplitExtRoot(PathSplit(rest)[2])
    IN  IF is_rest(restn) THEN SplitExtRoot(restn) ELSE restn

\* line 453: the ids of a list of targets
TgtIds(tgts) == {tgts[n][2] : n \in 1..Len(tgts)}

\* the position of fldr in the OrderedDict d, 0 if it is no key
KeyPos(d, fldr) ==
    LET at == {n \in 1..Len(d) : d[n].fldr = fldr} IN IF at = {} THEN 0 ELSE SetMin(at)

\* lines 451-452: entry appended to the list of fldr, the key added last if new
WithEntry(d, fldr, entry) ==
    IF KeyPos(d, fldr) = 0 THEN Append(d, [fldr |-> fldr, lnktgts |-> <<entry>>])
    ELSE [d EXCEPT ![KeyPos(d, fldr)].lnktgts = Append(@, entry)]

\* a defaultdict(set) read at key
SetAt(d, key) == IF key \in DOMAIN d THEN d[key] ELSE {}

\* the <Kind>s of the targets of a document that an unnamed block labels
AutoKinds(lns, tgts) ==
    {KindLabel(KindOfLine(lns[MeaningAt(lns, tgts[n][1]).j])) :
        n \in {m \in 1..Len(tgts) : MeaningAt(lns, tgts[m][1]).kind = "auto"}}

\* main calls genfldrs('.') and asks for its first folder: lines 431-435, and
\* os.walk('.') begins
GfStart ==
    /\ pc \in {"idle", "done"}
    /\ runs < MaxRuns
    /\ pc' = "scan"
    /\ runs' = runs + 1
    /\ cwd' = "scanroot"
    /\ primaries' = WalkFrom(fs, walk, 1, 1)
    /\ dcs' = <<>>
    /\ di' = 1
    /\ cur' = [fldr |-> "", restn |-> ""]
    /\ dcns' = {}
    /\ fldr_lnktgts' = <<>>
    /\ fldr_allfiles' = <<>>
    /\ fldr_alltgts' = <<>>
    /\ nextfldr' = 1
    /\ prev_out' = files_out
    /\ emitted' = <<>>
    /\ scanned' = NoScanned
    /\ UNCHANGED <<g_counters, labelVars, unitVars, treeVars, lines_cache, memo, files_out>>

\* read_lines(fn) when open() succeeds
ReadLines(cache, tree, fn) == IF fn \in DOMAIN cache THEN cache[fn] ELSE tree[NormPath(fn)].lns

\* whether read_lines(fn) returns: from the cache of lru_cache, or from the file
Readable(cache, tree, fn) == fn \in DOMAIN cache \/ Opens(tree, fn)

\* the caches after genrstincluded was called with the arguments key: memoized
\* holds the new calls and lru_cache the files they read
MemoWith(cache, tree, calls) ==
    Updated(cache, [c \in calls \ DOMAIN cache |-> genrstincluded(tree, c[1], c[2], FALSE).names])

LinesWith(cache, tree, calls) ==
    Updated([q \in {Resolve(tree, c[1], c[2]) :
                      c \in {e \in calls : Opens(tree, Resolve(tree, e[1], e[2]))}} |->
                tree[q].lns],
            cache)

\* line 438: the first .rest file of dcs
FirstRest(res) == res[SetMin({n \in 1..Len(res) : is_rest(res[n])})]

\* genfldrincluded comes to its next .rest file (lines 204-218) and, unless
\* the file is excluded, yields its list to lines 437-444 of genfldrs
GfPrimary ==
    /\ pc = "scan"
    /\ di > Len(dcs)
    /\ Len(primaries) > 0
    /\ \E p \in {primaries[1][1]}, f \in {primaries[1][2]} :
          IF Excluded(nj(p, f))
          THEN UNCHANGED <<pc, memo, lines_cache, dcs, di, cur, dcns, fldr_allfiles, scanned>>
          ELSE \E run \in {IF <<f, <<p>>>> \in DOMAIN memo
                           \* memoized: a known call is replayed from its tee
                           THEN [names |-> memo[<<f, <<p>>>>], raised |-> FALSE, calls |-> {}]
                           ELSE genrstincluded(fs, f, <<p>>, FALSE)} :
               IF run.raised
               \* the exception of line 164 leaves the loops of lines 211 and
               \* 437 and then main: no folder is yielded, line 460 is not come to
               THEN /\ pc' = "crashed"
                    /\ memo' = MemoWith(memo, fs, run.calls)
                    /\ lines_cache' = LinesWith(lines_cache, fs, run.calls \ DOMAIN memo)
                    /\ UNCHANGED <<dcs, di, cur, dcns, fldr_allfiles, scanned>>
               ELSE
               \E res \in {ResOf(p, run.names, 1)} :
               \E fldr \in {FldrOf(FirstRest(res))}, restn \in {RestnOf(FirstRest(res))} :
                  /\ pc' = pc
                  /\ memo' = MemoWith(memo, fs, run.calls)
                  /\ lines_cache' = LinesWith(lines_cache, fs, run.calls \ DOMAIN memo)
                  /\ dcs' = res
                  /\ di' = 1
                  /\ cur' = [fldr |-> fldr, restn |-> restn]
                  /\ fldr_allfiles' =
                        Updated(fldr_allfiles,
                                [q \in {fldr} |->
                                    SetAt(fldr_allfiles, q) \cup {res[n] : n \in 1..Len(res)}])
                  /\ dcns' = dcns \cup {restn}
                  /\ scanned' = NoScanned
    /\ primaries' = Tail(primaries)
    /\ UNCHANGED <<g_counters, labelVars, unitVars, treeVars, runs, cwd, fldr_lnktgts, fldr_alltgts,
                   nextfldr, files_out, emitted, prev_out>>

\* one turn of the loop of line 445
GfDoc ==
    /\ pc = "scan"
    /\ di <= Len(dcs)
    /\ \E doc \in {dcs[di]} :
          IF Readable(lines_cache, fs, doc)
          THEN \E lns \in {ReadLines(lines_cache, fs, doc)} :
               \E lt \in {linktargets(lns, Cardinality(dcns), g_counters)} :
                  /\ lines_cache' = Updated(lines_cache, [q \in {doc} |-> lns])
                  /\ g_counters' = lt.g_counters
                  /\ fldr_lnktgts' =
                        WithEntry(fldr_lnktgts, cur.fldr,
                                  [restn |-> cur.restn, doc |-> doc, lenlns |-> Len(lns),
                                   lnks |-> links(lns), tgts |-> lt.tgts])
                  /\ fldr_alltgts' =
                        Updated(fldr_alltgts,
                                [q \in {cur.fldr} |->
                                    SetAt(fldr_alltgts, q) \cup TgtIds(lt.tgts)])
                  /\ scanned' = [lns |-> lns, tgts |-> lt.tgts,
                                 seen |-> scanned.seen
                                          \cup AutoKinds(scanned.lns, scanned.tgts)]
          \* lines 454-455: open() raised, nothing is added for doc
          ELSE UNCHANGED <<lines_cache, g_counters, fldr_lnktgts, fldr_alltgts, scanned>>
    /\ di' = di + 1
    /\ UNCHANGED <<labelVars, unitVars, treeVars, pc, runs, cwd, memo, primaries, dcs, cur, dcns,
                   fldr_allfiles, nextfldr, files_out, emitted, prev_out>>

\* the first loop of genfldrs has ended
Scanned == pc = "scan" /\ di > Len(dcs) /\ Len(primaries) = 0

\* genfldrs yields its next folder (lines 456-459) and main calls lnksandtags
\* for it (lines 1070-1078; no folder of the trees holds a file named gen)
Emit ==
    /\ Scanned
    /\ nextfldr <= Len(fldr_lnktgts)
    /\ \E fldr \in {fldr_lnktgts[nextfldr].fldr} :
       \E lists \in {lnksandtags(fldr, fldr_lnktgts[nextfldr].lnktgts,
                                 SetAt(fldr_alltgts, fldr))} :
          /\ files_out' = Updated(files_out, Written(fldr, lists))
          /\ emitted' = Updated(emitted, [q \in {fldr} |-> lists])
    /\ nextfldr' = nextfldr + 1
    /\ UNCHANGED <<g_counters, labelVars, unitVars, treeVars, pc, runs, cwd, lines_cache, memo, scanVars,
                   prev_out>>

\* main asks for a folder after the last: line 460, and the generator ends
GfEnd ==
    /\ Scanned
    /\ nextfldr > Len(fldr_lnktgts)
    /\ pc' = "done"
    /\ cwd' = "odir"
    /\ UNCHANGED <<g_counters, labelVars, unitVars, treeVars, runs, lines_cache, memo, scanVars, nextfldr,
                   files_out, emitted, prev_out>>

Next == GfStart \/ GfPrimary \/ GfDoc \/ Emit \/ GfEnd

Spec == Init /\ [][Next]_vars


\* ------------------------------------------------------------------------
\* memoized(genrstincluded) as the lazy generator it is: the documents the
\* consumers call it for
\* ------------------------------------------------------------------------

\* what an author puts into a document
Inc(n) == [t |-> "include", s |-> n]

Img(q) == [t |-> "image", s |-> q]

Fig(q) == [t |-> "figure", s |-> q]

SubstImg(q) == [t |-> "substitution", s |-> q]

Txt(x) == [t |-> "text", s |-> x]

\* the line an author writes for it
WrittenLine(it) ==
    CASE it.t = "include" -> ".. include:: " \o it.s \o "\n"
      [] it.t = "image" -> ".. image:: " \o it.s \o "\n"
      [] it.t = "figure" -> ".. figure:: " \o it.s \o "\n"
      [] it.t = "substitution" -> ".. |x y| image:: " \o it.s \o "\n"
      [] OTHER -> it.s

WrittenLines(items) == [n \in 1..Len(items) |-> WrittenLine(items[n])]

\* the documents of folder a: name -> what the author put into it
InclDocs ==
    ("root.rest" :> <<Inc("inc.rst"), Img("r.png"), Inc("gone.rst"), Fig("f.png"),
                      Inc("inc.rst"), Inc("_links_sphinx.rst"), SubstImg("sub.png"),
                      Txt("text\n")>>)
    @@ ("inc.rst" :> <<Img("i.png"), Inc("deep.rst"), Inc("lost.rst"), Txt("tail\n")>>)
    @@ ("deep.rst" :> <<Txt("x\n")>>)
    @@ ("_links_sphinx.rst" :> <<Inc("deep.rst")>>)

\* the search roots handed to genrstincluded
SearchRoots == <<"./a", "./b">>

InclTree ==
    [q \in {"a/" \o n : n \in DOMAIN InclDocs} |->
        File(WrittenLines(InclDocs[CHOOSE n \in DOMAIN InclDocs : "a/" \o n = q]))]

\* the places a file named t.rst may be at, each naming itself in an include
\* of a file that is nowhere
Places ==
    ("a/t.rst" :> "in_a.rst") @@ ("a/t.rst.stpl" :> "in_a_stpl.rst")
    @@ ("b/t.rst" :> "in_b.rst") @@ ("b/t.rst.stpl" :> "in_b_stpl.rst")
    @@ ("t.rst" :> "in_cwd.rst")

PlaceTrees ==
    {[q \in DOMAIN Places |->
        IF q \in there THEN File(WrittenLines(<<Inc(Places[q])>>)) ELSE NoFile] :
     there \in SUBSET DOMAIN Places}

\* a document of the working directory with a toctree that lists ch1.rest;
\* below the listing come a blank line and a line of text, and then an
\* indented line that names ch2.rest
TocTree ==
    ("toc.rest" :> File(<<".. toctree::\n", "  ch1.rest\n", "\n", "Some text\n",
                          "  ch2.rest\n">>))
    @@ ("ch1.rest" :> File(<<"one\n">>))
    @@ ("ch2.rest" :> File(<<"two\n">>))

InclTrees == {InclTree, TocTree} \cup PlaceTrees

\* documents of the working directory whose include directives come back to
\* the document they start from: self.rest includes itself, p.rest includes
\* q.rst and q.rst includes p.rest
CycleTree ==
    ("self.rest" :> File(<<".. include:: self.rest\n", "text\n">>))
    @@ ("p.rest" :> File(<<".. include:: q.rst\n", "text\n">>))
    @@ ("q.rst" :> File(<<"x\n", ".. include:: p.rest\n", "y\n">>))

\* the arguments the consumers call genrstincluded with, for a tree
CallArgs(tree) ==
    IF tree = InclTree
    THEN {<<"root.rest", SearchRoots>>, <<"root.rest", SearchRoots, TRUE>>,
          <<"inc.rst", SearchRoots>>}
    ELSE IF tree = TocTree THEN {<<"toc.rest", SearchRoots>>}
    ELSE IF tree = CycleTree
    THEN {<<"self.rest", SearchRoots>>, <<"p.rest", SearchRoots>>, <<"q.rst", SearchRoots>>}
    ELSE {<<"t.rst", SearchRoots>>}

\* the most iterators the consumers hold
MaxCursors == 2

\* the most values a consumer takes from one iterator; the sequences of the
\* trees without a cycle end before
MaxPulls == 12

\* ------------------------------------------------------------------------
\* memoized and the generator behind a tee buffer, resumed one yield at a time
\* ------------------------------------------------------------------------

NoSub == [key |-> <<>>, pos |-> 0, toc |-> FALSE]

\* a generator that has not been resumed yet, with an empty tee buffer
NewEntry ==
    [buf |-> <<>>,
     g |-> [phase |-> "new", lns |-> <<>>, k |-> 0, toctree |-> FALSE, sub |-> NoSub]]

\* memoized that calls f at every call
memoized_NoCache(c, args) == Updated(c, [a \in {args} |-> NewEntry])

\* lines 90-91: f is called for arguments the cache does not hold
memoized(c, args) ==
    IF args \in DOMAIN c THEN c ELSE Updated(c, [a \in {args} |-> NewEntry])

\* lines 186-188 with every include entered
IncludeTarget_Any(e) ==
    LET ft == SplitOn(SubSeq(e, 4, Len(e)), "include:: ")
    IN  IF Len(ft) # 2 THEN [ok |-> FALSE, call |-> FALSE, nf |-> ""]
        ELSE [ok |-> TRUE, call |-> ft[1] = "" /\ ft[2] # "", nf |-> Strip(ft[2])]

\* lines 186-188 with no include entered
IncludeTarget_None(e) ==
    [ok |-> Len(SplitOn(SubSeq(e, 4, Len(e)), "include:: ")) = 2, call |-> FALSE, nf |-> ""]

\* lines 186-188: whether the unpacking succeeds, whether line 188 is come
\* to, and the name it calls genrstincluded with
IncludeTarget(e) ==
    LET ft == SplitOn(SubSeq(e, 4, Len(e)), "include:: ")
    IN  IF Len(ft) # 2 THEN [ok |-> FALSE, call |-> FALSE, nf |-> ""]
        ELSE [ok |-> TRUE,
              call |-> ft[1] = "" /\ ft[2] # "" /\ ~StartsWith(ft[2], "_links_"),
              nf |-> Strip(ft[2])]

\* no exception of a nested generator is caught
Swallowed_Never(toc) == FALSE

\* whether an exception that leaves a nested generator is caught: line 189 is
\* inside the try of line 185, line 174 is inside none
Swallowed(toc) == ~toc

Item(v) == [kind |-> "item", v |-> v]

Stop == [kind |-> "stop", v |-> ""]

Raise == [kind |-> "raise", v |-> ""]

\* st with the generator of key replaced
WithGen(st, key, g) == [st EXCEPT !.cache[key].g = g]

RECURSIVE Pull(_, _, _)
RECURSIVE Resume(_, _, _)
RECURSIVE AfterSub(_, _, _)
RECURSIVE Go(_, _, _)

\* the generator of key takes what its nested iterator gave: lines 174 and 189
\* (yield from), and lines 190-194 when an exception came
AfterSub(tree, p, key) ==
    LET g == p.st.cache[key].g
        e == g.lns[g.k]
        on == [g EXCEPT !.k = @ + 1, !.sub = NoSub]
    IN  IF p.out.kind = "item"
        THEN [st |-> WithGen(p.st, key, [g EXCEPT !.sub.pos = @ + 1]), out |-> p.out]
        ELSE IF p.out.kind = "stop" THEN Go(tree, WithGen(p.st, key, on), key)
        ELSE IF ~Swallowed(g.sub.toc)
        THEN [st |-> WithGen(p.st, key, [g EXCEPT !.phase = "done"]), out |-> Raise]
        ELSE IF Len(key) = 3 /\ key[3] /\ reximg(e).ok
        THEN [st |-> WithGen(p.st, key, on), out |-> Item(reximg(e).g)]
        ELSE Go(tree, WithGen(p.st, key, on), key)

\* Resume for the state st stands for, taken once
Go(tree, st, key) == CHOOSE o \in {Resume(tree, s, key) : s \in {st}} : TRUE

\* the generator of key runs to its next yield, its end or its exception.
\* st holds the cache of memoized, the cache of read_lines and scans.
Resume(tree, st, key) ==
    LET g == st.cache[key].g
        paths == key[2]
        withimg == Len(key) = 3 /\ key[3]
        next(t) == Go(tree, WithGen(st, key, [g EXCEPT !.k = @ + 1, !.toctree = t]), key)
        enter(args, toc) ==
            Go(tree,
                   WithGen([st EXCEPT !.cache = memoized(@, args)], key,
                           [g EXCEPT !.sub = [key |-> args, pos |-> 0, toc |-> toc]]),
                   key)
    IN  \* line 163
        IF g.phase = "new"
        THEN [st |-> WithGen(st, key, [g EXCEPT !.phase = "open"]), out |-> Item(key[1])]
        \* lines 164-166
        ELSE IF g.phase = "open"
        THEN CHOOSE o \in
               {IF ~Readable(st.lines, tree, nfn)
                THEN [st |-> WithGen([st EXCEPT !.scans = Append(@, <<key, nfn>>)], key,
                                     [g EXCEPT !.phase = "done"]),
                      out |-> Raise]
                ELSE Go(tree,
                            WithGen([st EXCEPT !.scans = Append(@, <<key, nfn>>),
                                               !.lines = Updated(@, [q \in {nfn} |->
                                                            ReadLines(st.lines, tree, nfn)])],
                                    key,
                                    [g EXCEPT !.phase = "loop", !.k = 1,
                                              !.lns = ReadLines(st.lines, tree, nfn)]),
                            key) :
                nfn \in {Resolve(tree, key[1], paths)}} : TRUE
        \* suspended in a yield from
        ELSE IF g.sub # NoSub
        THEN CHOOSE o \in {AfterSub(tree, p, key) : p \in {Pull(tree, st, g.sub)}} : TRUE
        \* line 167 has no line left
        ELSE IF g.k > Len(g.lns)
        THEN [st |-> WithGen(st, key, [g EXCEPT !.phase = "done"]), out |-> Stop]
        ELSE
        LET e == g.lns[g.k]
        IN  \* lines 168-177
            IF g.toctree /\ StartsWith(e, " ")
            THEN IF EndsWith(Strip(e), ".rest") /\ Exists(tree, Strip(e))
                 THEN enter(<<Strip(e), paths>>, TRUE)
                 ELSE next(g.toctree)
            ELSE IF StartsWith(e, ".. toctree::") THEN next(TRUE)
            \* lines 180-194
            ELSE IF StartsWith(e, ".. ")
            THEN CHOOSE o \in
                   {IF ~it.ok
                    THEN IF withimg /\ reximg(e).ok
                         THEN [st |-> WithGen(st, key, [g EXCEPT !.k = @ + 1]),
                               out |-> Item(reximg(e).g)]
                         ELSE next(g.toctree)
                    ELSE IF it.call THEN enter(<<it.nf, paths>>, FALSE)
                    ELSE next(g.toctree) :
                    it \in {IncludeTarget(e)}} : TRUE
            ELSE next(g.toctree)

\* next(r) for an iterator r of tee: from the buffer while it has more, else
\* from the generator, whose yield goes into the buffer
Pull(tree, st, it) ==
    IF it.pos < Len(st.cache[it.key].buf)
    THEN [st |-> st, out |-> Item(st.cache[it.key].buf[it.pos + 1])]
    ELSE IF st.cache[it.key].g.phase = "done" THEN [st |-> st, out |-> Stop]
    ELSE CHOOSE o \in
           {IF r.out.kind = "item"
            THEN [st |-> [r.st EXCEPT !.cache[it.key].buf = Append(@, r.out.v)],
                  out |-> r.out]
            ELSE r :
            r \in {Resume(tree, st, it.key)}} : TRUE

\* a consumer calls genrstincluded: lines 89-95
InclCall ==
    /\ Len(cursors) < MaxCursors
    /\ \E args \in CallArgs(fs) :
          /\ memo_cache' = memoized(memo_cache, args)
          /\ cursors' = Append(cursors, [key |-> args, pos |-> 0, got |-> <<>>, end |-> "open"])
    /\ UNCHANGED <<g_counters, labelVars, linkVars, readVars, scans, pipeVars>>

\* a consumer calls next on its iterator c
InclNextOf(c) ==
    /\ c \in 1..Len(cursors)
    /\ cursors[c].end = "open"
    /\ cursors[c].pos < MaxPulls
    /\ \E p \in {Pull(fs, [cache |-> memo_cache, lines |-> lines_cache, scans |-> scans],
                      [key |-> cursors[c].key, pos |-> cursors[c].pos])} :
          /\ memo_cache' = p.st.cache
          /\ lines_cache' = p.st.lines
          /\ scans' = p.st.scans
          /\ cursors' = [cursors EXCEPT ![c] =
                           IF p.out.kind = "item"
                           THEN [@ EXCEPT !.pos = @ + 1, !.got = Append(@, p.out.v)]
                           ELSE [@ EXCEPT !.end = p.out.kind]]
    /\ UNCHANGED <<g_counters, labelVars, linkVars, readVars, treeVars, pc, runs, cwd, memo, scanVars,
                   nextfldr, files_out, emitted, prev_out>>

\* a consumer calls next on one of its iterators
InclNext == \E c \in 1..MaxCursors : InclNextOf(c)

\* the tree is that of the working directory
InclInit ==
    /\ g_counters = <<>>
    /\ LabelIdle
    /\ PipeIdle
    /\ UnitIdle
    /\ fs \in InclTrees
    /\ walk = <<>>

InclStep == InclCall \/ InclNext

SpecIncl == InclInit /\ [][InclStep]_vars

\* the working directory holds the documents with cycles, or those of InclTree
CycleInit ==
    /\ g_counters = <<>>
    /\ LabelIdle
    /\ PipeIdle
    /\ UnitIdle
    /\ fs \in {CycleTree, InclTree}
    /\ walk = <<>>

\* a consumer that has called genrstincluded goes on calling next until its
\* iterator ends (the for loop of line 211 has no break)
SpecCycle ==
    CycleInit /\ [][InclStep]_vars /\ \A c \in 1..MaxCursors : WF_vars(InclNextOf(c))


\* ------------------------------------------------------------------------
\* read_lines behind lru_cache, for files that are told apart by a number
\* ------------------------------------------------------------------------

\* lru_cache() holds the results of this many calls
lru_maxsize == 128

\* the working directory holds the files 1..MaxFiles; there is no file 0
MaxFiles == 130

\* where the cache holds the result for fn
HeldAt(c, fn) == {n \in 1..Len(c) : c[n].fn = fn}

\* a hit makes the entry the most recently used one
Touched(c, n) == SubSeq(c, 1, n - 1) \o SubSeq(c, n + 1, Len(c)) \o <<c[n]>>

\* a miss adds an entry and, the cache being full, drops the least recently
\* used one
Added(c, entry) == IF Len(c) = lru_maxsize THEN Tail(c) \o <<entry>> ELSE c \o <<entry>>

\* read_lines(fn) is called for the file that does not exist, for the file
\* that was read first, or for a file that has not been read yet
ReadCall ==
    /\ \E fn \in {0, 1, nread + 1} :
          /\ fn <= MaxFiles
          /\ IF fn = 0
             \* line 145 raises, and lru_cache holds no exception
             THEN /\ last' = [fn |-> fn, lns |-> 0, raised |-> "FileNotFoundError"]
                  /\ UNCHANGED <<lru, nlists, nread, returned>>
             ELSE IF HeldAt(lru, fn) # {}
             THEN \E n \in HeldAt(lru, fn) :
                     /\ lru' = Touched(lru, n)
                     /\ last' = [fn |-> fn, lns |-> lru[n].lns, raised |-> ""]
                     /\ returned' = [returned EXCEPT ![fn] = @ \cup {lru[n].lns}]
                     /\ UNCHANGED <<nlists, nread>>
             \* lines 144-147: a new list
             ELSE /\ nlists' = nlists + 1
                  /\ lru' = Added(lru, [fn |-> fn, lns |-> nlists + 1])
                  /\ nread' = IF fn > nread THEN fn ELSE nread
                  /\ returned' = Updated(returned,
                                         [q \in {fn} |-> SetAt(returned, q) \cup {nlists + 1}])
                  /\ last' = [fn |-> fn, lns |-> nlists + 1, raised |-> ""]
    /\ UNCHANGED <<g_counters, labelVars, pipeVars, linkVars, inclVars>>

ReadInit ==
    /\ g_counters = <<>>
    /\ LabelIdle
    /\ PipeIdle
    /\ UnitIdle
    /\ fs = <<>>
    /\ walk = <<>>

ReadNext == ReadCall

SpecRead == ReadInit /\ [][ReadNext]_vars


\* ------------------------------------------------------------------------
\* Claims about linktargets (specification SpecLabel)
\* ------------------------------------------------------------------------

Stepped == step.at >= 0

\* the target the last turn of the loop yielded
LastYield == yielded[Len(yielded)]

\* the line of the document of gen at Python index j
LineAt(j) == gen.lns[j + 1]

HasLine(j) == j + 1 <= Len(gen.lns)

\* C4 (as claimed): the n-th block with an empty :name: field of a kind, counted
\* over all calls with the same group number, is labelled '<Kind> n': whenever
\* an anchor takes its label from such a block, the label carries the ordinal
\* of that block among the unnamed blocks of its kind labelled in the group.
C4_NthBlockLabelledN ==
    (Stepped /\ step.first.kind = "auto") =>
        LET kl == KindLabel(KindOfLine(LineAt(step.first.j - 1)))
        IN  LastYield[3] = kl \o " " \o ToString(nblocks[gen.docnumber][kl])

\* C6: an anchor whose label comes from a :name: field with the explicit value
\* foo is labelled exactly foo, and no counter of any group is advanced.
C6_ExplicitNameVerbatim ==
    (Stepped /\ step.first.kind = "name") =>
        /\ LastYield[3] = NameOfLine(LineAt(step.first.j))
        /\ g_counters = step.before

\* C6 witness: a name written with surrounding blanks was used as a label after
\* a counter of the group had been advanced.
C6_Witness ==
    /\ Stepped
    /\ step.first.kind = "name"
    /\ LineAt(step.first.j) = "   :name:  my fig  \n"
    /\ LastYield[3] = "my fig"
    /\ \E k \in CounterKeys : g_counters[gen.docnumber][k] > 1

\* C7 (as claimed): an anchor followed directly, or after one blank line, by a
\* heading text with its underline beneath is labelled with the heading text.
C7_HeadingLabel ==
    Stepped =>
        LET i == step.at
        IN  /\ (HasLine(i + 2) /\ LineAt(i + 1) \in TitleLines /\ LineAt(i + 2) \in UnderLines)
                  => LastYield[3] \o "\n" = LineAt(i + 1)
            /\ (HasLine(i + 3) /\ LineAt(i + 1) = BlankLine /\ LineAt(i + 2) \in TitleLines
                  /\ LineAt(i + 3) \in UnderLines)
                  => LastYield[3] \o "\n" = LineAt(i + 2)

\* C8 (as claimed): an anchor followed, directly or after one blank line, by a
\* definition-style line of the identifier idname, with or without text after
\* the colon, is labelled idname.
C8_ItemLabel ==
    Stepped =>
        LET i == step.at
        IN  /\ (HasLine(i + 1) /\ LineAt(i + 1) \in ItemLines) => LastYield[3] = ItemName
            /\ (HasLine(i + 2) /\ LineAt(i + 1) = BlankLine /\ LineAt(i + 2) \in ItemLines)
                  => LastYield[3] = ItemName

\* the indices of the anchor declaration lines of a document, ascending
RECURSIVE AnchorsFrom(_, _)
AnchorsFrom(lns, i) ==
    IF i > Len(lns) - 1 THEN <<>>
    ELSE (IF lns[i + 1] \in {AnchorLine(id) : id \in AnchorIds} THEN <<i>> ELSE <<>>)
         \o AnchorsFrom(lns, i + 1)

\* the identifier an anchor declaration line encloses
AnchorId(ln) == CHOOSE id \in AnchorIds : ln = AnchorLine(id)

C11_IdVerbatim ==
    /\ \A n \in 1..Len(yielded) : yielded[n][2] = AnchorId(gen.lns[yielded[n][1] + 1])
    /\ (ncalls > 0 /\ ~gen.active) =>
          \A l \in 1..Len(links(gen.lns)) :
              links(gen.lns)[l][2] \in AnchorIds
                  => \E n \in 1..Len(yielded) : yielded[n][2] = links(gen.lns)[l][2]

\* C10: an anchor whose label comes from an empty :name: field directly below
\* a figure, math, table, list-table, code or code-block directive is labelled
\* Figure n, Math n, Table n, Table n, Code n, Code n, n counting the anchors
\* of the group labelled so from the same counter (table with list-table,
\* code with code-block), from 1.
C10_KindNormalization ==
    (Stepped /\ step.first.kind = "auto") =>
        LET kl == KindLabel(KindOfLine(LineAt(step.first.j - 1)))
        IN  LastYield[3] = kl \o " " \o ToString(nauto[gen.docnumber][kl])

\* C10 witness: a list-table block is labelled Table 2 after a table block of
\* the same group was labelled Table 1.
C10_Witness ==
    /\ Stepped
    /\ step.first.kind = "auto"
    /\ LineAt(step.first.j - 1) = DirectiveLine("list-table")
    /\ Len(yielded) = 2
    /\ yielded[1][3] = "Table 1"
    /\ LineAt(yielded[1][1] + 2) = DirectiveLine("table")
    /\ LastYield[3] = "Table 2"

\* ------------------------------------------------------------------------
\* What the documents of a tree hold, as their author wrote them
\* ------------------------------------------------------------------------

\* the ids a document links to, in reading order
GtLinks(lns) ==
    CASE lns = DocFigure -> <<"t2", "zz">>
      [] lns = DocHeading -> <<"t1", "t3", "t2">>
      [] lns = DocIncluding -> <<"t4">>
      [] lns = DocOther -> <<"t1">>
      [] lns = DocIncluded -> <<"t3", "t4", "zz">>
      [] lns = DocPlain -> <<"t1">>
      [] lns = DocTwice -> <<"t4", "t1", "t2", "zz">>

\* the ids a document declares
GtTargets(lns) ==
    CASE lns = DocFigure -> {"t1"}
      [] lns = DocHeading -> {"t2"}
      [] lns = DocIncluding -> {"t3"}
      [] lns = DocOther -> {"t3"}
      [] lns = DocIncluded -> {"t4"}
      [] lns = DocPlain -> {}
      [] lns = DocTwice -> {"zz", "t1"}

\* the files a document includes
GtIncludes(lns) == IF lns \in {DocIncluding, DocTwice} THEN <<"inc.rst">> ELSE <<>>

Folders == {"", "a", "b"}

\* the primary documents of a folder in the order of the scan; index documents
\* and generated link files are no documents of a folder (lines 207-209)
GtPrimaries(fldr) ==
    CASE fldr = "" -> <<"z.rest">>
      [] fldr = "a" -> <<"a/x.rest", "a/y.rest">>
      [] fldr = "b" -> <<"b/x.rest">>

\* the file is there and can be read
IsPresent(q) == fs[q].readable

\* a primary document that is there, followed by the files it includes that are there
GtWithIncluded(fldr, q) ==
    IF ~IsPresent(q) THEN <<>>
    ELSE <<q>> \o SelectSeq([n \in 1..Len(GtIncludes(fs[q].lns)) |->
                               fldr \o "/" \o GtIncludes(fs[q].lns)[n]], IsPresent)

RECURSIVE GtDocsFrom(_, _)
GtDocsFrom(fldr, k) ==
    IF k > Len(GtPrimaries(fldr)) THEN <<>>
    ELSE GtWithIncluded(fldr, GtPrimaries(fldr)[k]) \o GtDocsFrom(fldr, k + 1)

\* the readable documents of a folder, in the order of the scan
GtFolderDocs(fldr) == GtDocsFrom(fldr, 1)

GtFolderTargets(fldr) ==
    UNION {GtTargets(fs[GtFolderDocs(fldr)[n]].lns) : n \in 1..Len(GtFolderDocs(fldr))}

RECURSIVE GtLinksFrom(_, _)
GtLinksFrom(docs, k) ==
    IF k > Len(docs) THEN <<>> ELSE GtLinks(fs[docs[k]].lns) \o GtLinksFrom(docs, k + 1)

\* the link occurrences of a folder, in the order of the scan
GtFolderLinks(fldr) == GtLinksFrom(GtFolderDocs(fldr), 1)

\* ------------------------------------------------------------------------
\* Reading the files lnksandtags has written
\* ------------------------------------------------------------------------

\* the folder whose files the last call of lnksandtags has written, if this
\* scan has come to a call
JustWritten ==
    IF pc = "scan" /\ nextfldr > 1 THEN {fldr_lnktgts[nextfldr - 1].fldr} ELSE {}

LinksFile(fldr, ddn) == files_out[nj(fldr, "_links_" \o ddn \o ".rst")]

TagRows(fldr) ==
    IF files_out[nj(fldr, ".tags")] = "" THEN <<>> ELSE SplitOn(files_out[nj(fldr, ".tags")], "\n")

RECURSIVE ItemsFrom(_, _)
\* the link entries of the comment lines of a links file that list links (the
\* other comment lines name a document)
ItemsFrom(rows, k) ==
    IF k > Len(rows) THEN <<>>
    ELSE (IF StartsWith(rows[k], ".. .. ") /\ SubSeq(rows[k], 7, Len(rows[k])) \notin TreePaths
          THEN SplitOn(SubSeq(rows[k], 7, Len(rows[k])), ",") ELSE <<>>)
         \o ItemsFrom(rows, k + 1)

LinkItems(fldr, ddn) == ItemsFrom(SplitOn(LinksFile(fldr, ddn), "\n"), 1)

Count(x, seq) == Cardinality({n \in 1..Len(seq) : seq[n] = x})

\* ------------------------------------------------------------------------
\* Claims about genfldrs and lnksandtags (specification Spec)
\* ------------------------------------------------------------------------

\* C1: whenever lnksandtags has written the files of a folder, every link
\* occurrence of the folder whose id no readable document of the folder
\* declares is listed with a leading '-' in each of _links_sphinx.rst,
\* _links_docx.rst and _links_pdf.rst, once per occurrence, and the .tags
\* file of the folder has no row for that id.
C1_DanglingMarked ==
    \A fldr \in JustWritten :
    \A declared \in {GtFolderTargets(fldr)}, linked \in {GtFolderLinks(fldr)},
       rows \in {TagRows(fldr)} :
        /\ \A n \in 1..Len(doctypes) : \A items \in {LinkItems(fldr, doctypes[n])} :
              \A id \in TreeIds \ declared : Count("-" \o id, items) = Count(id, linked)
        /\ \A id \in TreeIds \ declared :
              \A n \in 1..Len(rows) : ~StartsWith(rows[n], id \o "\t")

\* C1 witness: folder a holds only x.rest, which declares t1 and links to t2
\* and zz; both links are listed as dangling and .tags has its row for t1.
C1_Witness ==
    /\ pc = "done"
    /\ fs["a/x.rest"] = File(DocFigure)
    /\ ~fs["a/y.rest"].exists
    /\ \A n \in 1..Len(doctypes) : LinkItems("a", doctypes[n]) = <<"-t2", "-zz">>
    /\ Len(TagRows("a")) = 1
    /\ StartsWith(TagRows("a")[1], "t1\t")

\* C2: whenever lnksandtags has written the files of a folder, the links of
\* the folder are listed in them in the order of the scan, unmarked
\* exactly when a readable document of the same folder declares the id, be it
\* scanned before or after the link, and marked when only documents of other
\* folders declare it; the target-id set handed to lnksandtags is the set of
\* the ids the readable documents of the folder declare.
C2_CollectThenResolve ==
    /\ \A fldr \in JustWritten :
       \A declared \in {GtFolderTargets(fldr)}, linked \in {GtFolderLinks(fldr)} :
       \A d \in 1..Len(doctypes) :
          LinkItems(fldr, doctypes[d]) =
              [n \in 1..Len(linked) |->
                  IF linked[n] \in declared THEN linked[n] ELSE "-" \o linked[n]]
    /\ \A fldr \in DOMAIN emitted : SetAt(fldr_alltgts, fldr) = GtFolderTargets(fldr)

\* C2 witness: a/x.rest links to t3, which a/y.rest declares and is scanned
\* later, and to t1, which only b/x.rest declares; a/y.rest links to t4, which
\* the file it includes declares.
C2_Witness ==
    /\ pc = "done"
    /\ fs["a/x.rest"] = File(DocHeading)
    /\ fs["a/y.rest"] = File(DocIncluding)
    /\ fs["a/inc.rst"].exists
    /\ fs["b/x.rest"] = File(DocFigure)
    /\ LinkItems("a", "sphinx") = <<"-t1", "t3", "t2", "t4", "t3", "t4", "-zz">>
    /\ LinkItems("b", "sphinx") = <<"-t2", "-zz">>

\* C3 (as claimed): the files a second scan of the unchanged tree leaves are
\* those of the first scan, byte for byte.
C3_Idempotent == (pc = "done" /\ runs >= 2) => files_out = prev_out

\* C5 (as claimed): for every primary document, the first block with an empty
\* :name: field of each kind in its files is numbered 1.
C5_FirstOfKindIsOne ==
    \A n \in 1..Len(scanned.tgts) :
        LET m == MeaningAt(scanned.lns, scanned.tgts[n][1])
            kl == KindLabel(KindOfLine(scanned.lns[m.j]))
            earlier == {e \in 1..(n - 1) :
                          /\ MeaningAt(scanned.lns, scanned.tgts[e][1]).kind = "auto"
                          /\ KindLabel(KindOfLine(
                                scanned.lns[MeaningAt(scanned.lns, scanned.tgts[e][1]).j])) = kl}
        IN  (m.kind = "auto" /\ kl \notin scanned.seen /\ earlier = {})
                => scanned.tgts[n][3] = kl \o " 1"


\* ------------------------------------------------------------------------
\* Claims about links, under SpecLinks
\* ------------------------------------------------------------------------

\* the markers a line was put together from, left to right
RECURSIVE MarkersOf(_)
MarkersOf(segs) ==
    IF segs = <<>> THEN <<>>
    ELSE (IF Head(segs).marker THEN <<Head(segs).s>> ELSE <<>>) \o MarkersOf(Tail(segs))

\* the (line index, id) of every marker of the first k lines, top to bottom
RECURSIVE MarkerPairs(_, _)
MarkerPairs(src, k) ==
    IF k = 0 THEN <<>>
    ELSE MarkerPairs(src, k - 1)
         \o [n \in 1..Len(MarkersOf(src[k])) |-> <<k - 1, MarkersOf(src[k])[n]>>]

IsPrefix(a, b) == Len(a) <= Len(b) /\ a = SubSeq(b, 1, Len(a))

\* the image paths the authors of InclDocs wrote
ImagePaths == {"r.png", "f.png", "sub.png", "i.png"}

NonImg(names) == SelectSeq(names, LAMBDA x : x \notin ImagePaths)

WithImg(key) == Len(key) = 3 /\ key[3]

\* what the author of InclDocs had included from a document, depth-first: the
\* document, then for each of its include directives, in their order, what is
\* included from the named file; images too where img is set
RECURSIVE GtWalk(_, _)
RECURSIVE GtWalkItems(_, _, _)
GtWalk(name, img) ==
    <<name>> \o (IF name \in DOMAIN InclDocs THEN GtWalkItems(InclDocs[name], 1, img) ELSE <<>>)

GtWalkItems(items, n, img) ==
    IF n > Len(items) THEN <<>>
    ELSE (IF items[n].t = "include"
          THEN IF items[n].s = "_links_sphinx.rst" THEN <<>> ELSE GtWalk(items[n].s, img)
          ELSE IF img /\ items[n].t \in {"image", "figure", "substitution"}
          THEN <<items[n].s>>
          ELSE <<>>)
         \o GtWalkItems(items, n + 1, img)

\* the walks from the documents the consumers call for, without and with images
GtWalks ==
    [img \in BOOLEAN |->
        [name \in {key[1] : key \in CallArgs(InclTree)} |-> GtWalk(name, img)]]

Has(q) == q \in DOMAIN fs /\ fs[q].exists

\* every search root with the name, then every search root with the name and
\* the suffix, then the bare name
RootsThenSuffix ==
    IF Has("a/t.rst") THEN "a/t.rst"
    ELSE IF Has("b/t.rst") THEN "b/t.rst"
    ELSE IF Has("a/t.rst.stpl") THEN "a/t.rst.stpl"
    ELSE IF Has("b/t.rst.stpl") THEN "b/t.rst.stpl"
    ELSE "t.rst"

\* search root by search root the name and then the name with the suffix, then
\* the bare name
RootByRoot ==
    IF Has("a/t.rst") THEN "a/t.rst"
    ELSE IF Has("a/t.rst.stpl") THEN "a/t.rst.stpl"
    ELSE IF Has("b/t.rst") THEN "b/t.rst"
    ELSE IF Has("b/t.rst.stpl") THEN "b/t.rst.stpl"
    ELSE "t.rst"

\* genrstincluded called for t.rst yields t.rst, scans the file at place and
\* so yields next the name that file includes, with which it ends; it raises
\* only if there is no file at place
ScansAt(place) ==
    fs \in PlaceTrees =>
       /\ \A n \in 1..Len(scans) : scans[n][1][1] = "t.rst" => scans[n][2] = place
       /\ \A c \in 1..Len(cursors) :
             /\ cursors[c].pos >= 1 => cursors[c].got[1] = "t.rst"
             /\ cursors[c].pos >= 2 => cursors[c].got[2] = Places[place]
             /\ cursors[c].end = "raise" => ~Has(place)
             /\ (cursors[c].end = "stop" /\ Has(place)) => cursors[c].pos = 2

\* C14 (as claimed): the file genrstincluded scans is the name under the first
\* search root that has it; if no search root has it, the name with '.stpl'
\* under the first search root that has that; else the bare name; the value
\* yielded first is the name as given.
C14_RootsThenSuffix == ScansAt(RootsThenSuffix)

\* C14 (amended): the file genrstincluded scans is found search root by search
\* root: under each root the name is tried and then the name with '.stpl',
\* before the next root is come to; if no root has either, the bare name is
\* used; the value yielded first is the name as given.
C14_RootByRoot == ScansAt(RootByRoot)

\* the first root has only t.rst.stpl, the second has t.rst: the iterator has
\* ended after the name the file of the first root includes
C14_Witness ==
    /\ fs \in PlaceTrees
    /\ Has("a/t.rst.stpl") /\ Has("b/t.rst") /\ ~Has("a/t.rst")
    /\ \E c \in 1..Len(cursors) :
          cursors[c].end = "stop" /\ cursors[c].got = <<"t.rst", "in_a_stpl.rst">>


\* C15: an iterator called for a document that is there raises nothing, though
\* documents it comes to include files that are nowhere; the generator of a
\* missing file yields the name of the file and no more, and an iterator that
\* has ended has yielded every missing file where its directive is and, after
\* it, what follows from the remaining lines of the including document.
C15_MissingTolerated ==
    /\ \A c \in 1..Len(cursors) :
          /\ (\E q \in DOMAIN fs : fs[q].exists) => cursors[c].end # "raise"
          /\ (fs = InclTree /\ cursors[c].end = "stop") =>
                \A walked \in {GtWalks[FALSE][cursors[c].key[1]]} :
                \A names \in {NonImg(cursors[c].got)} :
                    /\ Len(names) = Len(walked)
                    /\ \A n \in 1..Len(walked) :
                          walked[n] \notin DOMAIN InclDocs =>
                              /\ names[n] = walked[n]
                              /\ n < Len(walked) => names[n + 1] = walked[n + 1]
    /\ \A key \in DOMAIN memo_cache :
          (fs = InclTree /\ key[1] \notin DOMAIN InclDocs) =>
              IsPrefix(memo_cache[key].buf, <<key[1]>>)

\* root.rest consumed to its end: the missing gone.rst is yielded and the
\* include of inc.rst below it is followed
C15_Witness ==
    \E c \in 1..Len(cursors) :
        /\ cursors[c].key = <<"root.rest", SearchRoots>>
        /\ cursors[c].end = "stop"
        /\ SubSeq(cursors[c].got, 5, 6) = <<"gone.rst", "inc.rst">>
        /\ <<"gone.rst", SearchRoots>> \in DOMAIN memo_cache
        /\ memo_cache[<<"gone.rst", SearchRoots>>].g.phase = "done"


\* what one uninterrupted run of genrstincluded yields, for every tree and the
\* arguments the consumers call with
WholeRuns ==
    [tree \in InclTrees |->
        [key \in CallArgs(tree) |-> genrstincluded(tree, key[1], key[2], WithImg(key)).names]]

\* the generators of key that came to read_lines
ScansOf(key) == {n \in 1..Len(scans) : scans[n][1] = key}

\* C17: for no arguments does the generator of genrstincluded come to its scan
\* more than once, and what an iterator has received so far is, whatever the
\* other iterators of the same arguments have received and in whatever order
\* the consumers took their turns, the beginning of what one uninterrupted
\* run of the generator yields, and all of it once the iterator has ended.
C17_MemoizedTee ==
    /\ \A key \in DOMAIN memo_cache : Cardinality(ScansOf(key)) <= 1
    /\ \A c \in 1..Len(cursors) :
          \A whole \in {WholeRuns[fs][cursors[c].key]} :
              /\ Len(cursors[c].got) = cursors[c].pos
              /\ IsPrefix(cursors[c].got, whole)
              /\ cursors[c].end # "open" => cursors[c].got = whole

\* two iterators of root.rest: the second was consumed to its end while the
\* first, returned before it, stands after its third name
C17_Witness ==
    /\ Len(cursors) = 2
    /\ cursors[1].key = <<"root.rest", SearchRoots>>
    /\ cursors[2].key = cursors[1].key
    /\ cursors[1].end = "open" /\ cursors[1].pos = 3
    /\ cursors[2].end = "stop" /\ cursors[2].pos = 8


\* C18 (as claimed): an iterator of genrstincluded called with withimg that has
\* ended has yielded, where their lines are, the image paths of the image and
\* figure directives of the document called for and of every document
\* included from it; one called without withimg has yielded no image path.
C18_ImageLeaves ==
    \A c \in 1..Len(cursors) :
        (fs = InclTree /\ cursors[c].end = "stop") =>
            /\ WithImg(cursors[c].key) => cursors[c].got = GtWalks[TRUE][cursors[c].key[1]]
            /\ ~WithImg(cursors[c].key) =>
                  \A n \in 1..Len(cursors[c].got) : cursors[c].got[n] \notin ImagePaths

GtReadableFolders ==
    {fldr \in Folders :
        \E n \in 1..Len(GtPrimaries(fldr)) : fs[GtPrimaries(fldr)[n]].readable}

\* C16 (as claimed): no exception ends a scan, and a scan that has ended has
\* had the data of every folder that holds a readable primary document
\* yielded, whatever documents of the tree cannot be read.
C16_ScanNeverAborts ==
    /\ pc # "crashed"
    /\ pc = "done" => \A fldr \in GtReadableFolders : fldr \in DOMAIN emitted


\* ------------------------------------------------------------------------
\* Claims about read_lines, under SpecRead
\* ------------------------------------------------------------------------

\* C20 (as claimed): whatever calls lie in between, read_lines has returned
\* one list object only for each file, and the call for the file that does
\* not exist has raised FileNotFoundError and returned nothing.
C20_ReadCacheIdentity ==
    /\ \A fn \in DOMAIN returned : Cardinality(returned[fn]) <= 1
    /\ last.fn = 0 => last.raised = "FileNotFoundError" /\ last.lns = 0

\* ------------------------------------------------------------------------
\* Claims about the files lnksandtags writes (specification Spec)
\* ------------------------------------------------------------------------

\* the anchors a document declares as its author wrote them: the line of the
\* declaration, counted from 1, and the id, from the top of the document down
GtAnchors(lns) ==
    CASE lns = DocFigure -> <<<<1, "t1">>>>
      [] lns = DocHeading -> <<<<2, "t2">>>>
      [] lns = DocIncluding -> <<<<2, "t3">>>>
      [] lns = DocOther -> <<<<1, "t3">>>>
      [] lns = DocIncluded -> <<<<1, "t4">>>>
      [] lns = DocPlain -> <<>>
      [] lns = DocTwice -> <<<<3, "zz">>, <<8, "t1">>>>

RECURSIVE GtRowsFrom(_, _)
\* for the documents docs[k..], one <<id, document, line>> per declaration
GtRowsFrom(docs, k) ==
    IF k > Len(docs) THEN <<>>
    ELSE [n \in 1..Len(GtAnchors(fs[docs[k]].lns)) |->
             <<GtAnchors(fs[docs[k]].lns)[n][2], docs[k], GtAnchors(fs[docs[k]].lns)[n][1]>>]
         \o GtRowsFrom(docs, k + 1)

\* the declarations of a folder: documents in the order of the scan, a file
\* once for every primary document that includes it, lines from the top down
GtFolderRows(fldr) == GtRowsFrom(GtFolderDocs(fldr), 1)

\* the fields of a row of .tags
FieldsOf(row) == SplitOn(row, "\t")

\* C21: whenever lnksandtags has written the files of a folder, .tags has one
\* row for every declaration of the documents of the folder, documents in
\* the order of the scan and declarations from the top of each document down
\* (not sorted by id, nothing dropped when an id is declared again); the row
\* starts with the id and the path of the declaring document (from the
\* folder: one level up for a folder below the scan root) and ends with
\* line: and the line of the declaration counted from 1.
C21_RowPerTarget ==
    \A fldr \in JustWritten :
    \A rows \in {TagRows(fldr)}, decl \in {GtFolderRows(fldr)} :
        /\ Len(rows) = Len(decl)
        /\ \A n \in 1..Len(rows) : \A f \in {FieldsOf(rows[n])} :
              /\ f[1] = decl[n][1]
              /\ f[2] = (IF fldr = "" THEN "" ELSE "../") \o decl[n][2]
              /\ f[Len(f)] = "line:" \o ToString(decl[n][3])

\* C21 witness: folder a holds x.rest with the anchors zz (line 3) and t1
\* (line 8), and y.rest with t3; both include inc.rst with t4. The rows are
\* zz, t1, t4, t3, t4.
C21_Witness ==
    /\ pc = "done"
    /\ fs["a/x.rest"] = File(DocTwice)
    /\ fs["a/y.rest"] = File(DocIncluding)
    /\ fs["a/inc.rst"] = File(DocIncluded)
    /\ Len(TagRows("a")) = 5
    /\ [n \in 1..5 |-> FieldsOf(TagRows("a")[n])[1]] = <<"zz", "t1", "t4", "t3", "t4">>
    /\ FieldsOf(TagRows("a")[2])[2] = "../a/x.rest"
    /\ EndsWith(TagRows("a")[2], "line:8")
    /\ EndsWith(TagRows("a")[5], "\tline:1")

\* C22 (as claimed): whenever lnksandtags has written the files of a folder,
\* every row of .tags splits at its TABs into exactly four fields: the id, the
\* path, the search pattern ending in ;" and line:<n>.
C22_FourFields ==
    \A fldr \in JustWritten :
    \A rows \in {TagRows(fldr)} :
    \A n \in 1..Len(rows) : \A f \in {FieldsOf(rows[n])} :
        /\ Len(f) = 4
        /\ f[1] \in TreeIds
        /\ EndsWith(f[3], ";\"")
        /\ StartsWith(f[4], "line:")

\* the name of a primary document without its folder and extension
GtBaseName(q) ==
    CASE q = "z.rest" -> "z"
      [] q \in {"a/x.rest", "b/x.rest"} -> "x"
      [] q = "a/y.rest" -> "y"

RECURSIVE GtBasesFrom(_, _)
\* for the primary documents GtPrimaries(fldr)[k..], the base name of the
\* primary document once for every declaration of it and of the files it includes
GtBasesFrom(fldr, k) ==
    IF k > Len(GtPrimaries(fldr)) THEN <<>>
    ELSE [n \in 1..Len(GtRowsFrom(GtWithIncluded(fldr, GtPrimaries(fldr)[k]), 1)) |->
             GtBaseName(GtPrimaries(fldr)[k])]
         \o GtBasesFrom(fldr, k + 1)

RECURSIVE ExtractedFrom(_, _)
\* the targets linktargets has yielded for the entries lnktgts[k..]
ExtractedFrom(lnktgts, k) ==
    IF k > Len(lnktgts) THEN <<>> ELSE lnktgts[k].tgts \o ExtractedFrom(lnktgts, k + 1)

\* the targets extracted for the folder lnksandtags has been called for last
Extracted == ExtractedFrom(fldr_lnktgts[nextfldr - 1].lnktgts, 1)

IsDirective(row) == StartsWith(row, ".. |")

\* the replacement directives of a links file, from its top down
Directives(fldr, ddn) == SelectSeq(SplitOn(LinksFile(fldr, ddn), "\n"), IsDirective)

\* the directive of doctype ddn that binds id and shows label; for docx and pdf
\* it points into the output of the document named base
Binding(ddn, id, label, base) ==
    ".. |" \o id \o "| replace:: "
    \o (IF ddn = "sphinx" THEN ":ref:" \o BQ \o label \o "<" \o id \o ">" \o BQ
        ELSE BQ \o label \o " <" \o base \o "." \o ddn \o "#" \o id \o ">" \o BQ \o "_")

\* C23: whenever lnksandtags has written the files of a folder, the
\* replacement directives of each of the three links files are, in order, one
\* for every target extracted for the folder (which are the declarations of
\* its documents): it binds the id of the target and shows its label, as a
\* :ref: for sphinx and for docx and pdf as a hyperlink to
\* <base name of the primary document>.<docx|pdf>#<id>, the primary document
\* being the including one when an included file declares the target.
C23_DirectivePerTarget ==
    \A fldr \in JustWritten :
    \A ext \in {Extracted}, decl \in {GtFolderRows(fldr)}, bases \in {GtBasesFrom(fldr, 1)} :
        /\ Len(ext) = Len(decl)
        /\ \A n \in 1..Len(ext) : ext[n][1] + 1 = decl[n][3] /\ ext[n][2] = decl[n][1]
        /\ \A d \in 1..Len(doctypes) :
              Directives(fldr, doctypes[d]) =
                  [n \in 1..Len(ext) |-> Binding(doctypes[d], ext[n][2], ext[n][3], bases[n])]

\* C23 witness: a/x.rest and a/y.rest both include a/inc.rst, which declares
\* t4; the pdf file binds t4 once pointing into x.pdf and once into y.pdf, and
\* the sphinx file shows the heading below zz.
C23_Witness ==
    /\ pc = "done"
    /\ fs["a/x.rest"] = File(DocTwice)
    /\ fs["a/y.rest"] = File(DocIncluding)
    /\ fs["a/inc.rst"] = File(DocIncluded)
    /\ Len(Directives("a", "pdf")) = 5
    /\ Contains(Directives("a", "pdf")[3], "<x.pdf#t4>")
    /\ Contains(Directives("a", "pdf")[5], "<y.pdf#t4>")
    /\ Directives("a", "sphinx")[1] = ".. |zz| replace:: :ref:" \o BQ \o "Title Two<zz>" \o BQ

\* the four files of a folder
FolderFiles(fldr) ==
    {nj(fldr, "_links_" \o doctypes[n] \o ".rst") : n \in 1..Len(doctypes)} \cup {nj(fldr, ".tags")}

\* C24: whenever lnksandtags has been called for a folder genfldrs has yielded,
\* the three links files and .tags of the folder are written; when no readable
\* document of the folder declares an anchor, .tags is empty and no links file
\* holds a replacement directive.
C24_AllFilesWritten ==
    \A fldr \in JustWritten :
        /\ FolderFiles(fldr) \subseteq DOMAIN files_out
        /\ (SetAt(fldr_alltgts, fldr) = {} /\ GtFolderTargets(fldr) = {}) =>
              /\ files_out[nj(fldr, ".tags")] = ""
              /\ \A d \in 1..Len(doctypes) : Directives(fldr, doctypes[d]) = <<>>

\* C24 witness: folder b holds only x.rest, which links to t1 and declares
\* nothing; its .tags is written empty and its links files hold the name of
\* the document and the dangling link.
C24_Witness ==
    /\ pc = "done"
    /\ fs["b/x.rest"] = File(DocPlain)
    /\ SetAt(fldr_alltgts, "b") = {}
    /\ "b/.tags" \in DOMAIN files_out
    /\ files_out["b/.tags"] = ""
    /\ \A d \in 1..Len(doctypes) :
          LinksFile("b", doctypes[d]) = "\n.. .. b/x.rest\n\n\n.. .. -t1\n\n"

\* ------------------------------------------------------------------------
\* The lookahead of linktargets (specification SpecLabel)
\* ------------------------------------------------------------------------

\* the document of gen without the lines further down than n lines below the
\* line at Python index i
CutBelow(i, n) ==
    SubSeq(gen.lns, 1, IF i + n + 1 < Len(gen.lns) THEN i + n + 1 ELSE Len(gen.lns))

\* C25 (as claimed): no line further down than six lines below an anchor has a
\* part in the label of the anchor or advances a counter: the target yielded
\* for an anchor and the counters after it are those the document yields
\* without the lines below the sixth line under the anchor.
C25_SixLinesBelow ==
    Stepped =>
        \A cut \in {CutBelow(step.at, 6)} :
            TargetAt(cut, step.at, step.before[gen.docnumber])
              = [tgt |-> LastYield, counters |-> g_counters[gen.docnumber]]

\* ------------------------------------------------------------------------
\* The order of links and directives in the links files (specification Spec)
\* ------------------------------------------------------------------------

\* the link occurrences of a document as its author wrote them: the line,
\* counted from 1, and the id, in reading order
GtLinkLines(lns) ==
    CASE lns = DocFigure -> <<<<6, "t2">>, <<6, "zz">>>>
      [] lns = DocHeading -> <<<<1, "t1">>, <<1, "t3">>, <<6, "t2">>>>
      [] lns = DocIncluding -> <<<<6, "t4">>>>
      [] lns = DocOther -> <<<<5, "t1">>>>
      [] lns = DocIncluded -> <<<<5, "t3">>, <<5, "t4">>, <<5, "zz">>>>
      [] lns = DocPlain -> <<<<1, "t1">>>>
      [] lns = DocTwice -> <<<<2, "t4">>, <<7, "t1">>, <<7, "t2">>, <<12, "zz">>>>

RECURSIVE GtMerged(_, _, _)
\* the anchors and the link occurrences of a document in the order of their
\* lines (no line holds both), a link marked when its id is not declared
GtMerged(anchors, lnks, declared) ==
    IF Len(lnks) > 0 /\ (Len(anchors) = 0 \/ lnks[1][1] < anchors[1][1])
    THEN <<<<"lnk", IF lnks[1][2] \in declared THEN lnks[1][2] ELSE "-" \o lnks[1][2]>>>>
         \o GtMerged(anchors, Tail(lnks), declared)
    ELSE IF Len(anchors) > 0
    THEN <<<<"tgt", anchors[1][2]>>>> \o GtMerged(Tail(anchors), lnks, declared)
    ELSE <<>>

RECURSIVE GtSectionsFrom(_, _, _)
\* for the documents docs[k..]: the document, then its anchors and links as merged
GtSectionsFrom(docs, k, declared) ==
    IF k > Len(docs) THEN <<>>
    ELSE <<<<"doc", docs[k]>>>>
         \o GtMerged(GtAnchors(fs[docs[k]].lns), GtLinkLines(fs[docs[k]].lns), declared)
         \o GtSectionsFrom(docs, k + 1, declared)

\* what a row of a links file says: the document a section is of, the links
\* listed, or the id a directive binds
RowItems(row) ==
    IF StartsWith(row, ".. .. ")
    THEN IF SubSeq(row, 7, Len(row)) \in TreePaths THEN <<<<"doc", SubSeq(row, 7, Len(row))>>>>
         ELSE [n \in 1..Len(SplitOn(SubSeq(row, 7, Len(row)), ",")) |->
                  <<"lnk", SplitOn(SubSeq(row, 7, Len(row)), ",")[n]>>]
    ELSE IF IsDirective(row) THEN <<<<"tgt", SplitOn(row, "|")[2]>>>>
    ELSE <<>>

RECURSIVE ItemsOfRows(_, _)
ItemsOfRows(rows, k) ==
    IF k > Len(rows) THEN <<>> ELSE RowItems(rows[k]) \o ItemsOfRows(rows, k + 1)

\* a links file from its top down: documents, links listed and ids bound
FileItems(fldr, ddn) == ItemsOfRows(SplitOn(LinksFile(fldr, ddn), "\n"), 1)

\* C26: whenever lnksandtags has written the files of a folder, each links
\* file holds one section for every document of the folder in the order of
\* the scan, and in the section every link occurrence of the document once
\* and every anchor of it once, in the order of their lines: before the
\* directive of an anchor come the links of earlier lines not listed yet, and
\* the links below the last anchor come after its directive and before the
\* section of the next document.
C26_LinksInterleaved ==
    \A fldr \in JustWritten :
    \A want \in {GtSectionsFrom(GtFolderDocs(fldr), 1, GtFolderTargets(fldr))} :
    \A d \in 1..Len(doctypes) : FileItems(fldr, doctypes[d]) = want

\* C26 witness: a/x.rest links to t4 on line 2, declares zz on line 3, links
\* to t1 and t2 on line 7, declares t1 on line 8 and links to zz on line 12;
\* its section lists them in this order, and the section of a/inc.rst follows.
C26_Witness ==
    /\ pc = "done"
    /\ fs["a/x.rest"] = File(DocTwice)
    /\ ~fs["a/y.rest"].exists
    /\ fs["a/inc.rst"] = File(DocIncluded)
    /\ FileItems("a", "docx") =
          <<<<"doc", "a/x.rest">>, <<"lnk", "t4">>, <<"tgt", "zz">>, <<"lnk", "t1">>,
            <<"lnk", "-t2">>, <<"tgt", "t1">>, <<"lnk", "zz">>, <<"doc", "a/inc.rst">>,
            <<"tgt", "t4">>, <<"lnk", "-t3">>, <<"lnk", "t4">>, <<"lnk", "zz">>>>

\* ------------------------------------------------------------------------
\* The end of genrstincluded (specification SpecCycle)
\* ------------------------------------------------------------------------

C28_ToctreeEnds ==
    fs = TocTree =>
        /\ \A key \in DOMAIN memo_cache : key[1] # "ch2.rest"
        /\ \A c \in 1..Len(cursors) :
              \A n \in 1..Len(cursors[c].got) : cursors[c].got[n] # "ch2.rest"

\* ------------------------------------------------------------------------
\* Files included more than once (specification Spec)
\* ------------------------------------------------------------------------

\* the places an id is declared at in the readable files of a folder: the
\* file and the line, a file counted once however many documents include it
GtPlacesOf(fldr, id) ==
    {<<GtFolderRows(fldr)[n][2], GtFolderRows(fldr)[n][3]>> :
        n \in {k \in 1..Len(GtFolderRows(fldr)) : GtFolderRows(fldr)[k][1] = id}}

\* C29 (as claimed): whenever lnksandtags has written the files of a folder in
\* which every id is declared on one line of one file only, .tags has one row
\* for every declared id and each links file has one directive that binds it,
\* also when more than one primary document includes the declaring file.
C29_OneRowPerId ==
    \A fldr \in JustWritten :
        (\A id \in TreeIds : Cardinality(GtPlacesOf(fldr, id)) <= 1) =>
            \A id \in GtFolderTargets(fldr) :
                /\ Cardinality({n \in 1..Len(TagRows(fldr)) :
                                  FieldsOf(TagRows(fldr)[n])[1] = id}) = 1
                /\ \A d \in 1..Len(doctypes) :
                      Cardinality({n \in 1..Len(Directives(fldr, doctypes[d])) :
                                     StartsWith(Directives(fldr, doctypes[d])[n],
                                                ".. |" \o id \o "|")}) = 1

=============================================================================
